---- MODULE Spec2Model ----
(***************************************************************************)
(* Write-ingest and flush pipeline of dLSM (db_impl.cc):                   *)
(*   DBImpl::Write, DBImpl::PickupTableToWrite (lock-free rotation),       *)
(*   DBImpl::MaybeScheduleCompaction / BackgroundCall / CompactMemTable,   *)
(*   DBImpl::Get, DBImpl::GetSnapshot.                                     *)
(* Every statement that touches shared memory (mem_, imm_, a MemTable, the *)
(* VersionSet, bg_error_, the condition variable) is one atomic step.      *)
(* A Write call is identified by its call number; the sequence number it   *)
(* reserved is data.  At most NumThreads calls are in flight at once.      *)
(***************************************************************************)
EXTENDS Integers, FiniteSets, Sequences, TLC

\* ---------------------------------------------------------------- bounds
\* Spec: Write calls in all, client threads, threads of the pool
MaxWrites == 5
NumThreads == 3
NumBG == 2
\* BGWork items that may be queued at once, live snapshots
MaxQueue == 2
MaxSnapshots == 1
\* SpecRead, SpecNewest, SpecLive, SpecWriters: client threads, Write calls in
\* all, threads of the pool
PairThreads == 2
PairWrites == 5
PairBG == 1
\* SpecOpen: calls of DB::Open in all
MaxOpens == 2
\* SpecRecoverLog: records in the log file, greatest sequence of a batch
MaxRecords == 3
MaxLogSeq == 2
\* SpecSanitize: the option values go up to (MaxHigh + 1) * 2^30 - 1
MaxHigh == 4
\* SpecMetaData: chunks in the data map and in the filter map of a table
MaxChunks == 2

\* ------------------------------------------------------ program constants
MEMTABLE_SEQ_SIZE == 2

Null == -1
Calls == 0 .. (MaxWrites - 1)
Tables == 0 .. ((MaxWrites - 1) \div MEMTABLE_SEQ_SIZE)
Workers == 1 .. NumBG
Keys == {"k"}
Kinds == {"kTypeValue", "kTypeDeletion"}

VARIABLES
  last_sequence,   \* VersionSet::last_sequence_ (atomic counter)
  mem_,            \* DBImpl::mem_  (index of the mutable MemTable)
  imm_,            \* DBImpl::imm_  (index of the immutable MemTable or Null)
  tbl,             \* the MemTable objects, by window index
  current,         \* VersionSet::current(): sequence of level-0 files
  bg_error_,       \* DBImpl::bg_error_  ("OK" or an error)
  shutting_down_,  \* DBImpl::shutting_down_
  bgQueue,         \* BGWork items handed to env_->Schedule, not yet started
  bg,              \* background worker threads
  ncalls,          \* number of Write calls made so far
  wpc,             \* per Write call: position in Write/PickupTableToWrite
  wseq,            \* per Write call: the local `sequence` (line 1360)
  wmem,            \* per Write call: the local mem_r / mem
  wkey,            \* per Write call: user key of the batch
  wkind,           \* per Write call: kTypeValue or kTypeDeletion
  wret,            \* per Write call: Status returned by Write
  wbg,             \* per Write call: bg_error_ at the moment of the call
  next_file_number_, \* VersionSet::next_file_number_
  snapshots_,      \* DBImpl::snapshots_: the live snapshots (sequence number,
                   \* and for the properties the number of earlier Write calls)
  rpc,             \* the reader thread: position in Get
  rd,              \* the reader thread: locals of Get
  crashed,         \* "no", or the assertion / null dereference that ended the process
  deleted,         \* ~DBImpl has deleted versions_ and released mem_ and imm_
  dbopen,          \* DB::Open: the options, the locals of Open and Recover,
                   \* the CURRENT file of the directory, the number of calls
  rlf,             \* DBImpl::RecoverLogFile: the log file, the options and
                   \* the locals of the call
  opts,            \* SanitizeOptions: src, result, and the result of
                   \* sanitizing the result again
  cr,              \* the client thread that calls CompactRange: position and
                   \* max_level_with_files
  meta,            \* a RemoteMemTableMetaData, the node it lives on, and what
                   \* its destructor has asked of the RDMA manager
  it,              \* the client thread that calls NewInternalIterator: its
                   \* position, its locals and the IterState it registers
  cw,              \* DoCompactionWork: the input, the snapshots and the locals
                   \* of the loop
  mc,              \* TEST_CompactRange: the caller's position, its arguments
                   \* and DBImpl::manual_compaction_
  rof,            \* RemoveObsoleteFiles: its position, what it read and what it removed
  wl,             \* WriteLevel0Table: the pool threads inside it, pending_outputs_ and the edits
  rec,            \* Recover: the missing-file test and the replay of the logs
  ve,             \* VersionEdit: new_files_, deleted_files_ and the last operation applied
  blk             \* Block: the contents it was built from, size_, restart_offset_ and the iterator

vars == <<last_sequence, mem_, imm_, tbl, current, bg_error_, shutting_down_,
          bgQueue, bg, ncalls, wpc, wseq, wmem, wkey, wkind, wret, wbg,
          next_file_number_, snapshots_, rpc, rd, crashed, deleted, dbopen, rlf, opts, cr, meta, it, cw, mc, rof, wl, rec, ve, blk>>

\* what the write path, the flush path, Get and the destructor leave alone
offhandle == <<dbopen, rlf, opts, cr, meta, it, cw, mc, rof, wl, rec, ve, blk>>
\* what no operation on the handle touches
offdb == <<dbopen, rlf, opts, meta, it, cw, mc, rof, wl, rec, ve, blk>>
\* what NewInternalIterator and the cleanup of its iterator leave alone next
\* to the MemTables
offIterator == <<dbopen, rlf, opts, cr, meta, cw, mc, rof, wl, rec, ve, blk>>
\* what DB::Open, RecoverLogFile and SanitizeOptions leave alone next to the
\* handle
offOpen == <<rlf, opts, meta, it, cw, mc, rof, wl, rec, ve, blk>>
offRecoverLog == <<dbopen, opts, meta, it, cw, mc, rof, wl, rec, ve, blk>>
offSanitize == <<dbopen, rlf, meta, it, cw, mc, rof, wl, rec, ve, blk>>
offMetaData == <<dbopen, rlf, opts, it, cw, mc, rof, wl, rec, ve, blk>>
\* what a Block leaves alone next to the handle
offBlock == <<dbopen, rlf, opts, meta, it, cw, mc, rof, wl, rec, ve>>
\* what a VersionEdit leaves alone next to the handle
offVersionEdit == <<dbopen, rlf, opts, meta, it, cw, mc, rof, wl, rec, blk>>
\* what Recover's file test leaves alone next to the handle
offRecoverFiles == <<dbopen, rlf, opts, meta, it, cw, mc, rof, wl, ve, blk>>
\* what WriteLevel0Table's steps leave alone next to the handle
offLevel0 == <<dbopen, rlf, opts, meta, it, cw, mc, rof, rec, ve, blk>>
\* what RemoveObsoleteFiles leaves alone next to the handle
offObsolete == <<dbopen, rlf, opts, meta, it, cw, mc, wl, rec, ve, blk>>
\* what TEST_CompactRange leaves alone next to the handle
offManual == <<dbopen, rlf, opts, meta, it, cw, rof, wl, rec, ve, blk>>
\* what DoCompactionWork leaves alone next to the handle
offCompaction == <<dbopen, rlf, opts, meta, it, mc, rof, wl, rec, ve, blk>>

\* the state of an open handle
dbvars == <<last_sequence, mem_, imm_, tbl, current, bg_error_, shutting_down_,
            bgQueue, bg, ncalls, wpc, wseq, wmem, wkey, wkind, wret, wbg,
            next_file_number_, snapshots_, rpc, rd, crashed, deleted, cr>>

rvars == <<snapshots_, rpc, rd>>

\* ------------------------------------------------------------- MemTable
NewMemTable(first, largest) ==
  [created |-> TRUE, first_seq |-> first, largest_seq |-> largest,
   kv_num |-> 0, able_to_flush |-> FALSE, flush_state |-> "FLUSH_NOT_REQUESTED",
   table |-> {}, refs |-> 1]

NoMemTable ==
  [created |-> FALSE, first_seq |-> 0, largest_seq |-> 0,
   kv_num |-> 0, able_to_flush |-> FALSE, flush_state |-> "FLUSH_NOT_REQUESTED",
   table |-> {}, refs |-> 0]

GetFirstseq(t) == tbl[t].first_seq
Getlargest_seq_supposed(t) == tbl[t].largest_seq
InWindow(seq, t) == seq >= GetFirstseq(t) /\ seq <= Getlargest_seq_supposed(t)

\* MemTable::increase_kv_num: add n to the applied count; the table becomes
\* able to flush when the count reaches the window size.
increase_kv_num(m, n) ==
  [m EXCEPT !.kv_num = @ + n,
            !.able_to_flush = @ \/ (m.kv_num + n >= MEMTABLE_SEQ_SIZE)]

\* WriteBatchInternal::InsertInto for the single-kv batch of Write call c: the
\* entry (wkey[c], wseq[c], wkind[c]) is added to the table
InsertInto(m, c) == [m EXCEPT !.table = @ \cup {c}]

SetFlushState(m, st) == [m EXCEPT !.flush_state = st]
CheckFlushScheduled(t) == tbl[t].flush_state = "FLUSH_SCHEDULED"
Unref(m) == [m EXCEPT !.refs = @ - 1]

\* ------------------------------------------------------ background worker
\* locals of BackgroundCall / CompactMemTable: imm (line 597), the file put
\* into the VersionEdit by WriteLevel0Table, and the Status s.
\* History, for the properties only:
\*   before   the flush state of imm when CompactMemTable loaded it
NoFile == [number |-> 0, from |-> Null, entries |-> {}]
IdleWorker == [pc |-> "idle", imm |-> Null, file |-> NoFile, st |-> "OK",
               before |-> "none"]

\* ---------------------------------------------------------------- reader
\* locals of Get: key, snapshot (lines 1192-1198), mem, imm, current (1200-
\* 1202), the entry found (the Write call that made it, or Null), Status s.
\* History, for the properties only:
\*   given    options.snapshot != nullptr
\*   taken    the number of Write calls made before that snapshot was taken
\*   returned the newest write to key that had returned when Get was called
\*            and that the snapshot covers (Null if none)
\*   best     the entry of key with the greatest sequence <= snapshot among
\*            mem, imm and current at the moment of the lookup (Null if none)
NoVersion == << >>
\* ReadOptions::snapshot == nullptr
NoSnapshot == [sequence_number |-> Null, taken |-> Null]
IdleReader == [key |-> "k", snapshot |-> 0, mem |-> Null, imm |-> Null,
               current |-> NoVersion, found |-> Null, s |-> "OK",
               given |-> FALSE, taken |-> Null, returned |-> Null,
               best |-> Null]

\* ------------------------------------------------------------------ Init
\* DB::Open that has returned OK on a missing database with
\* create_if_missing, lines 1802-1845
Opened ==
  [pc |-> "returned", create_if_missing |-> TRUE, error_if_exists |-> FALSE,
   existed |-> FALSE, locked |-> TRUE, db_lock_ |-> TRUE, newdb |-> "OK",
   recovered |-> TRUE, mem |-> TRUE, save_manifest |-> FALSE, s |-> "OK",
   dbptr |-> "impl", current_file |-> TRUE, nopen |-> 1]

\* no call of CompactRange
NoCompactRange == [pc |-> "none", max_level_with_files |-> 0]

\* locals of NewInternalIterator: mem, imm (lines 1153-1154) and the Version
\* that line 1167 has ref'd (a Version is named by the number of files it
\* holds: every LogAndApply publishes a Version with one more file); the
\* IterState built at line 1169: state_mem, state_imm, state_version.
\* History, for the properties only:
\*   freed   Ref() or Unref() was called on a MemTable that had already been
\*           destroyed
NoIterator ==
  [pc |-> "none", mem |-> Null, imm |-> Null, version |-> Null,
   state_mem |-> Null, state_imm |-> Null, state_version |-> Null,
   freed |-> FALSE]

\* &manual, the address of the ManualCompaction on TEST_CompactRange's stack
AddrOfManual == 0

\* no call of TEST_CompactRange: manual_compaction_ is nullptr (line 192)
NoManualCompaction ==
  [pc |-> "none", level |-> 0, begin |-> Null, end |-> Null, done |-> FALSE,
   manual_compaction_ |-> Null]

\* no pool thread is in WriteLevel0Table, pending_outputs_ is empty
NoLevel0 ==
  [pc |-> [t \in 1 .. NumBG |-> "idle"],
   meta |-> [t \in 1 .. NumBG |-> [number |-> 0, file_size |-> 0]],
   s |-> [t \in 1 .. NumBG |-> "OK"],
   before |-> [t \in 1 .. NumBG |-> << >>],
   edit |-> [t \in 1 .. NumBG |-> << >>],
   pending_outputs_ |-> {},
   next_file_number_ |-> 1,
   crashed |-> FALSE]

\* no Block has been constructed
NoBlock ==
  [pc |-> "none", source |-> "table/block.cc", ndebug |-> FALSE,
   contents |-> << >>, type |-> "DataBlock", size_ |-> 0,
   restart_offset_ |-> Null, rdma_mg_ |-> "none", iterator |-> "none"]

\* no VersionEdit has been constructed
NoVersionEdit ==
  [pc |-> "none", ndebug |-> FALSE, file_size |-> << >>,
   new_files_ |-> << >>, deleted_files_ |-> {},
   op |-> << >>, before |-> [new_files_ |-> << >>, deleted_files_ |-> {}],
   twice |-> FALSE, edits |-> 0]

\* Open has not reached versions_->Recover
NoRecover ==
  [pc |-> "none", s |-> "OK", live |-> {}, filenames |-> {}, listed |-> FALSE,
   min_log |-> 0, prev_log |-> 0, expected |-> {}, logs |-> {},
   replayed |-> {}, max_sequence |-> 0, manifest_sequence |-> 0,
   last_sequence |-> 0, dbptr |-> "nullptr"]

\* no call of RemoveObsoleteFiles
NoObsolete ==
  [pc |-> "none", bg_error_ |-> "OK", pending_outputs_ |-> {}, live |-> {},
   LogNumber |-> 0, PrevLogNumber |-> 0, ManifestFileNumber |-> 0,
   filenames |-> {}, files_to_delete |-> {}, removed |-> {}]

\* no call of DoCompactionWork
NoCompaction ==
  [pc |-> "none", input |-> << >>, deeper |-> {}, snapshots |-> {},
   last_sequence |-> 0, smallest_snapshot |-> 0, next |-> 1,
   has_current_user_key |-> FALSE, current_user_key |-> "",
   last_sequence_for_key |-> 0, output |-> << >>, dropped |-> {}]

\* what DB::Open installs next to the sequence counter
InitMemTables ==
  /\ mem_ = 0
  /\ imm_ = Null
  /\ tbl = [t \in Tables |-> IF t = 0 THEN NewMemTable(0, MEMTABLE_SEQ_SIZE - 1)
                                      ELSE NoMemTable]
  /\ current = << >>
  /\ bg_error_ = "OK"
  /\ shutting_down_ = FALSE
  /\ bgQueue = 0
  /\ bg = [i \in Workers |-> IdleWorker]
  /\ ncalls = 0
  /\ wpc = [s \in Calls |-> "none"]
  /\ wseq = [s \in Calls |-> Null]
  /\ wmem = [s \in Calls |-> Null]
  /\ wkey = [s \in Calls |-> "k"]
  /\ wkind = [s \in Calls |-> "kTypeValue"]
  /\ wret = [s \in Calls |-> "none"]
  /\ wbg = [s \in Calls |-> "OK"]
  /\ next_file_number_ = 3
  /\ snapshots_ = {}
  /\ rpc = "idle"
  /\ rd = IdleReader
  /\ crashed = "no"
  /\ deleted = FALSE
  /\ cr = NoCompactRange
  /\ it = NoIterator
  /\ cw = NoCompaction
  /\ mc = NoManualCompaction
  /\ rof = NoObsolete
  /\ wl = NoLevel0
  /\ rec = NoRecover
  /\ ve = NoVersionEdit
  /\ blk = NoBlock

\* DB::Open on a fresh database: NewDB sets last_sequence 0, Open creates the
\* first MemTable with window [0, MEMTABLE_SEQ_SIZE-1] and one reference.
InitHandle ==
  /\ last_sequence = 0
  /\ InitMemTables

\* a Status: its code, and for a Corruption the position in the log of the
\* record it is about (0 otherwise)
StatusOK == [code |-> "OK", at |-> 0]
IOError == [code |-> "IOError", at |-> 0]
CorruptionAt(p) == [code |-> "Corruption", at |-> p]

\* RecoverLogFile that has returned OK from an empty log
NoLogFile ==
  [pc |-> "returned", paranoid_checks |-> FALSE, log |-> << >>, next |-> 1,
   status |-> StatusOK, reports |-> << >>, mem |-> FALSE, inserted |-> {},
   max_sequence |-> 0, compactions |-> 0, save_manifest |-> FALSE,
   mem_ |-> FALSE]

\* a size_t of 64 bits, written w * 2^30 + r with 0 <= r < 2^30
SizeT(w, r) == [w |-> w, r |-> r]
TwoTo30 == 1073741824

\* the conversion of an int that is not negative to size_t
FromInt(i) == SizeT(i \div TwoTo30, i % TwoTo30)

\* static_cast<int>(x) of a size_t x: the low 32 bits, read as two's
\* complement
ToInt(x) ==
  LET wm == x.w % 4
  IN IF wm >= 2 THEN (wm - 4) * TwoTo30 + x.r ELSE wm * TwoTo30 + x.r

\* the default Options, sanitized
DefaultOptions ==
  [max_open_files |-> 1000, write_buffer_size |-> FromInt(4194304),
   max_file_size |-> FromInt(2097152), block_size |-> FromInt(4096)]
NoOptions == [pc |-> "done", src |-> DefaultOptions, result |-> DefaultOptions,
              again |-> DefaultOptions]

\* a RemoteMemTableMetaData of the compute node 0, with one chunk in each of
\* its maps, that has not been destroyed
NoMetaData ==
  [pc |-> "alive", this_machine_type |-> 0, creator_node_id |-> 0,
   node_id |-> 0, remote_data_mrs |-> 1, remote_dataindex_mrs |-> 1,
   remote_filter_mrs |-> 1, slot_calls |-> 0, batched |-> 0, rpcs |-> 0,
   mrs_deleted |-> 0, failed |-> "no"]

Init ==
  /\ InitHandle
  /\ dbopen = Opened
  /\ rlf = NoLogFile
  /\ opts = NoOptions
  /\ meta = NoMetaData

Running == crashed = "no"

\* mutex_ is held by Get between its lines 1191 and 1212
MutexHeldByGet == rpc = "load_imm"
InFlight == {s \in Calls : wpc[s] \notin {"none", "done"}}

\* Memtable_full_cv.SignalAll(): every writer blocked in Wait() resumes at
\* the statement after the wait (line 1540).
SignalAll(pcs) == [s \in Calls |-> IF pcs[s] = "waiting" THEN "reload" ELSE pcs[s]]

\* VersionSet::AssignSequnceNumbers(n): atomic fetch-add, returns the first
\* sequence of the reserved range.
AssignSequnceNumbers(n) == last_sequence
LastSequenceAfterAssign(n) == last_sequence + n

\* VersionSet::NeedsCompaction(): compaction planning is external; the
\* modelled runs never need a level compaction.
NeedsCompaction == FALSE
manual_compaction_ == mc.manual_compaction_

\* DBImpl::MaybeScheduleCompaction: TRUE iff it calls env_->Schedule
SchedulesWork ==
  IF shutting_down_ THEN FALSE
  ELSE IF bg_error_ # "OK" THEN FALSE
  ELSE IF imm_ = Null /\ manual_compaction_ = Null /\ ~NeedsCompaction THEN FALSE
  ELSE TRUE

\* the loop test of line 1489 and the window test of line 1547, evaluated on
\* a freshly loaded mem_r
AfterLoad(seq_num, m) ==
  IF seq_num > Getlargest_seq_supposed(m) THEN "check_imm"
  ELSE IF seq_num >= GetFirstseq(m) THEN "insert"
  ELSE "search_imm"

\* ================================================================ Write
\* a reservation that reads the counter and leaves it as it was
WriteReserve_NotAdvanced(k, kd, threads, writes) ==
  /\ Running
  /\ ~shutting_down_
  /\ ncalls < writes
  /\ Cardinality(InFlight) < threads
  /\ ncalls' = ncalls + 1
  /\ wseq' = [wseq EXCEPT ![ncalls] = AssignSequnceNumbers(1)]
  /\ wpc' = [wpc EXCEPT ![ncalls] = "pickup"]
  /\ wkey' = [wkey EXCEPT ![ncalls] = k]
  /\ wkind' = [wkind EXCEPT ![ncalls] = kd]
  /\ wbg' = [wbg EXCEPT ![ncalls] = bg_error_]
  /\ UNCHANGED <<last_sequence, mem_, imm_, tbl, current, bg_error_,
                 shutting_down_, bgQueue, bg, wmem, wret, next_file_number_,
                 rvars, crashed>>
  /\ UNCHANGED deleted
  /\ UNCHANGED offhandle

\* Write, lines 1358-1364: reserve one sequence number for the batch and
\* enter PickupTableToWrite.  The batch holds exactly one kv (assert 1359).
WriteReserve(k, kd, threads, writes) ==
  /\ Running
  /\ ~shutting_down_
  /\ ncalls < writes
  /\ Cardinality(InFlight) < threads
  /\ ncalls' = ncalls + 1
  /\ wseq' = [wseq EXCEPT ![ncalls] = AssignSequnceNumbers(1)]
  /\ last_sequence' = LastSequenceAfterAssign(1)
  /\ wpc' = [wpc EXCEPT ![ncalls] = "pickup"]
  /\ wkey' = [wkey EXCEPT ![ncalls] = k]
  /\ wkind' = [wkind EXCEPT ![ncalls] = kd]
  /\ wbg' = [wbg EXCEPT ![ncalls] = bg_error_]
  /\ UNCHANGED <<mem_, imm_, tbl, current, bg_error_, shutting_down_, bgQueue,
                 bg, wmem, wret, next_file_number_, rvars, crashed>>
  /\ UNCHANGED deleted
  /\ UNCHANGED offhandle

\* PickupTableToWrite, line 1487: mem_r = mem_.load(), then the loop test
PickupLoad(s) ==
  /\ Running
  /\ wpc[s] = "pickup"
  /\ wmem' = [wmem EXCEPT ![s] = mem_]
  /\ wpc' = [wpc EXCEPT ![s] = AfterLoad(wseq[s], mem_)]
  /\ UNCHANGED <<last_sequence, ncalls, mem_, imm_, tbl, current, bg_error_,
                 shutting_down_, bgQueue, bg, wseq, wkey, wkind, wret, wbg, next_file_number_, rvars, crashed>>
  /\ UNCHANGED deleted
  /\ UNCHANGED offhandle

\* line 1492: if (imm_.load() != nullptr)
CheckImm(s) ==
  /\ Running
  /\ wpc[s] = "check_imm"
  /\ wpc' = [wpc EXCEPT ![s] = IF imm_ # Null THEN "wait" ELSE "set_flush"]
  /\ UNCHANGED <<last_sequence, ncalls, mem_, imm_, tbl, current, bg_error_,
                 shutting_down_, bgQueue, bg, wmem, wseq, wkey, wkind, wret, wbg, next_file_number_, rvars, crashed>>
  /\ UNCHANGED deleted
  /\ UNCHANGED offhandle

\* lines 1502-1503: Memtable_full_cv.Wait(): the writer starts to wait
WaitEnter(s) ==
  /\ Running
  /\ wpc[s] = "wait"
  /\ wpc' = [wpc EXCEPT ![s] = "waiting"]
  /\ UNCHANGED <<last_sequence, ncalls, mem_, imm_, tbl, current, bg_error_,
                 shutting_down_, bgQueue, bg, wmem, wseq, wkey, wkind, wret, wbg, next_file_number_, rvars, crashed>>
  /\ UNCHANGED deleted
  /\ UNCHANGED offhandle

\* a condition variable may wake a waiter without a signal
SpuriousWake(s) ==
  /\ Running
  /\ wpc[s] = "waiting"
  /\ wpc' = [wpc EXCEPT ![s] = "reload"]
  /\ UNCHANGED <<last_sequence, ncalls, mem_, imm_, tbl, current, bg_error_,
                 shutting_down_, bgQueue, bg, wmem, wseq, wkey, wkind, wret, wbg, next_file_number_, rvars, crashed>>
  /\ UNCHANGED deleted
  /\ UNCHANGED offhandle

\* lines 1508-1516: build the candidate table and mark mem_r FLUSH_REQUESTED
SetFlushRequested(s) ==
  /\ Running
  /\ wpc[s] = "set_flush"
  /\ tbl' = [tbl EXCEPT ![wmem[s]] = SetFlushState(@, "FLUSH_REQUESTED")]
  /\ wpc' = [wpc EXCEPT ![s] = "cas"]
  /\ UNCHANGED <<last_sequence, ncalls, mem_, imm_, current, bg_error_, shutting_down_,
                 bgQueue, bg, wmem, wseq, wkey, wkind, wret, wbg, next_file_number_, rvars, crashed>>
  /\ UNCHANGED deleted
  /\ UNCHANGED offhandle

\* a rotation whose new window starts at the last sequence of the old one
CompareExchange_WindowOverlaps(s) ==
  /\ Running
  /\ wpc[s] = "cas"
  /\ IF mem_ = wmem[s]
       THEN LET last_mem_seq == Getlargest_seq_supposed(wmem[s])
                temp_mem == wmem[s] + 1
            IN /\ mem_' = temp_mem
               /\ tbl' = [tbl EXCEPT ![temp_mem] =
                            NewMemTable(last_mem_seq,
                                        last_mem_seq + MEMTABLE_SEQ_SIZE)]
               /\ wpc' = [wpc EXCEPT ![s] = "store_imm"]
               /\ UNCHANGED wmem
       ELSE /\ wmem' = [wmem EXCEPT ![s] = mem_]
            /\ wpc' = [wpc EXCEPT ![s] = "reload"]
            /\ UNCHANGED <<ncalls, mem_, tbl>>
  /\ UNCHANGED <<last_sequence, ncalls, imm_, current, bg_error_, shutting_down_,
                 bgQueue, bg, wseq, wkey, wkind, wret, wbg, next_file_number_, rvars, crashed>>
  /\ UNCHANGED deleted
  /\ UNCHANGED offhandle

\* a rotation that stores the candidate into mem_ without comparing
CompareExchange_PlainStore(s) ==
  /\ Running
  /\ wpc[s] = "cas"
  /\ LET last_mem_seq == Getlargest_seq_supposed(wmem[s])
         temp_mem == wmem[s] + 1
     IN /\ mem_' = temp_mem
        /\ tbl' = [tbl EXCEPT ![temp_mem] =
                     NewMemTable(last_mem_seq + 1,
                                 last_mem_seq + MEMTABLE_SEQ_SIZE)]
        /\ wpc' = [wpc EXCEPT ![s] = "store_imm"]
  /\ UNCHANGED <<last_sequence, ncalls, imm_, current, bg_error_, shutting_down_,
                 bgQueue, bg, wmem, wseq, wkey, wkind, wret, wbg,
                 next_file_number_, rvars, crashed>>
  /\ UNCHANGED deleted
  /\ UNCHANGED offhandle

\* line 1521: mem_.compare_exchange_strong(mem_r, temp_mem); the loser
\* receives the current mem_ in mem_r and drops its candidate (line 1536)
CompareExchange(s) ==
  /\ Running
  /\ wpc[s] = "cas"
  /\ IF mem_ = wmem[s]
       THEN LET last_mem_seq == Getlargest_seq_supposed(wmem[s])
                temp_mem == wmem[s] + 1
            IN /\ mem_' = temp_mem
               /\ tbl' = [tbl EXCEPT ![temp_mem] =
                            NewMemTable(last_mem_seq + 1,
                                        last_mem_seq + MEMTABLE_SEQ_SIZE)]
               /\ wpc' = [wpc EXCEPT ![s] = "store_imm"]
               /\ UNCHANGED wmem
       ELSE /\ wmem' = [wmem EXCEPT ![s] = mem_]
            /\ wpc' = [wpc EXCEPT ![s] = "reload"]
            /\ UNCHANGED <<ncalls, mem_, tbl>>
  /\ UNCHANGED <<last_sequence, ncalls, imm_, current, bg_error_, shutting_down_,
                 bgQueue, bg, wseq, wkey, wkind, wret, wbg, next_file_number_, rvars, crashed>>
  /\ UNCHANGED deleted
  /\ UNCHANGED offhandle

\* lines 1530-1531: assert(imm_.load() == nullptr); imm_.store(mem_r).
\* A failed assertion aborts a debug build and is skipped by a release build.
StoreImm(s) ==
  /\ Running
  /\ wpc[s] = "store_imm"
  /\ \/ /\ imm_ # Null
        /\ crashed' = "assert_imm_null_1530"
        /\ UNCHANGED <<ncalls, imm_, wpc>>
     \/ /\ imm_' = wmem[s]
        /\ wpc' = [wpc EXCEPT ![s] = "schedule"]
        /\ UNCHANGED crashed
  /\ UNCHANGED <<last_sequence, ncalls, mem_, tbl, current, bg_error_, shutting_down_,
                 bgQueue, bg, wmem, wseq, wkey, wkind, wret, wbg, next_file_number_, rvars>>
  /\ UNCHANGED deleted
  /\ UNCHANGED offhandle

\* lines 1532-1534: MaybeScheduleCompaction(); mem_r = temp_mem; return
ScheduleAndReturn(s) ==
  /\ Running
  /\ wpc[s] = "schedule"
  /\ IF SchedulesWork
       THEN bgQueue < MaxQueue /\ bgQueue' = bgQueue + 1
       ELSE UNCHANGED bgQueue
  /\ wmem' = [wmem EXCEPT ![s] = wmem[s] + 1]
  /\ wpc' = [wpc EXCEPT ![s] = "insert"]
  /\ UNCHANGED <<last_sequence, ncalls, mem_, imm_, tbl, current, bg_error_,
                 shutting_down_, bg, wseq, wkey, wkind, wret, wbg, next_file_number_, rvars, crashed>>
  /\ UNCHANGED deleted
  /\ UNCHANGED offhandle

\* line 1540: mem_r = mem_.load(), then the loop test again
Reload(s) ==
  /\ Running
  /\ wpc[s] = "reload"
  /\ wmem' = [wmem EXCEPT ![s] = mem_]
  /\ wpc' = [wpc EXCEPT ![s] = AfterLoad(wseq[s], mem_)]
  /\ UNCHANGED <<last_sequence, ncalls, mem_, imm_, tbl, current, bg_error_,
                 shutting_down_, bgQueue, bg, wseq, wkey, wkind, wret, wbg, next_file_number_, rvars, crashed>>
  /\ UNCHANGED deleted
  /\ UNCHANGED offhandle

\* lines 1552-1558: mem_r = imm_.load(); assert(imm_.load() != nullptr);
\* a null imm_ is dereferenced right after the assertion
SearchImm(s) ==
  /\ Running
  /\ wpc[s] = "search_imm"
  /\ IF imm_ = Null
       THEN /\ crashed' = "imm_null_1553"
            /\ UNCHANGED <<ncalls, wmem, wpc>>
       ELSE /\ wmem' = [wmem EXCEPT ![s] = imm_]
            /\ wpc' = [wpc EXCEPT ![s] =
                         IF InWindow(wseq[s], imm_) THEN "insert" ELSE "search_imm"]
            /\ UNCHANGED crashed
  /\ UNCHANGED <<last_sequence, ncalls, mem_, imm_, tbl, current, bg_error_,
                 shutting_down_, bgQueue, bg, wseq, wkey, wkind, wret, wbg, next_file_number_, rvars>>
  /\ UNCHANGED deleted
  /\ UNCHANGED offhandle

\* Write, lines 1387-1388: the window assertion, then InsertInto(updates, mem)
Insert(s) ==
  /\ Running
  /\ wpc[s] = "insert"
  /\ \/ /\ ~InWindow(wseq[s], wmem[s])
        /\ crashed' = "assert_window_1387"
        /\ UNCHANGED <<ncalls, tbl, wpc>>
     \/ /\ tbl' = [tbl EXCEPT ![wmem[s]] = InsertInto(@, s)]
        /\ wpc' = [wpc EXCEPT ![s] = "inc"]
        /\ UNCHANGED crashed
  /\ UNCHANGED <<last_sequence, ncalls, mem_, imm_, current, bg_error_, shutting_down_,
                 bgQueue, bg, wmem, wseq, wkey, wkind, wret, wbg, next_file_number_, rvars>>
  /\ UNCHANGED deleted
  /\ UNCHANGED offhandle

\* Write, lines 1389-1401: mem->increase_kv_num(kv_num); return status
IncreaseAndReturn(s) ==
  /\ Running
  /\ wpc[s] = "inc"
  /\ tbl' = [tbl EXCEPT ![wmem[s]] = increase_kv_num(@, 1)]
  /\ wret' = [wret EXCEPT ![s] = "OK"]
  /\ wpc' = [wpc EXCEPT ![s] = "done"]
  /\ UNCHANGED <<last_sequence, ncalls, mem_, imm_, current, bg_error_, shutting_down_,
                 bgQueue, bg, wmem, wseq, wkey, wkind, wbg, next_file_number_, rvars, crashed>>
  /\ UNCHANGED deleted
  /\ UNCHANGED offhandle

\* ===================================================== background work
wvars == <<ncalls, wpc, wseq, wmem, wkey, wkind, wret, wbg>>

\* env_->Schedule: a free thread of the pool takes a queued BGWork item (the
\* threads of the pool are interchangeable: the lowest free one takes it)
BGWork(i) ==
  /\ Running
  /\ bg[i].pc = "idle"
  /\ \A j \in Workers : j < i => bg[j].pc # "idle"
  /\ bgQueue > 0
  /\ bgQueue' = bgQueue - 1
  /\ bg' = [bg EXCEPT ![i].pc = "call"]
  /\ UNCHANGED <<last_sequence, mem_, imm_, tbl, current, bg_error_,
                 shutting_down_, wvars, next_file_number_, rvars, crashed>>
  /\ UNCHANGED deleted
  /\ UNCHANGED offhandle

\* shutting_down_.load() by a pool thread: the member's value while the
\* DBImpl is alive; once ~DBImpl has released the object the load reads freed
\* memory and may return either value
ShuttingDownLoad == IF deleted THEN BOOLEAN ELSE {shutting_down_}

\* the status of line 621
DeletingDB == "IOError: Deleting DB during memtable compaction"

\* BackgroundCall, lines 757-763, and BackgroundCompaction, lines 776-779
BackgroundCall(i) ==
  /\ Running
  /\ bg[i].pc = "call"
  /\ \E sd \in ShuttingDownLoad :
       bg' = [bg EXCEPT ![i].pc =
                IF sd \/ bg_error_ # "OK" THEN "resched"
                ELSE IF imm_ # Null THEN "cm_load"
                ELSE "resched"]
  /\ UNCHANGED <<last_sequence, mem_, imm_, tbl, current, bg_error_,
                 shutting_down_, bgQueue, wvars, next_file_number_, rvars, crashed>>
  /\ UNCHANGED deleted
  /\ UNCHANGED offhandle

\* CompactMemTable, lines 596-605: imm = imm_.load() and the two assertions
CompactMemTableLoad(i) ==
  /\ Running
  /\ bg[i].pc = "cm_load"
  /\ \/ /\ imm_ = Null
        /\ crashed' = "assert_imm_nonnull_598"
        /\ UNCHANGED bg
     \/ /\ imm_ # Null
        /\ CheckFlushScheduled(imm_)
        /\ crashed' = "assert_not_scheduled_599"
        /\ UNCHANGED bg
     \/ /\ imm_ # Null
        /\ bg' = [bg EXCEPT ![i].pc = "cm_wait", ![i].imm = imm_,
                             ![i].before = tbl[imm_].flush_state]
        /\ UNCHANGED crashed
  /\ UNCHANGED <<last_sequence, mem_, imm_, tbl, current, bg_error_,
                 shutting_down_, bgQueue, wvars, next_file_number_, rvars>>
  /\ UNCHANGED deleted
  /\ UNCHANGED offhandle

\* lines 606-614: while(!imm->able_to_flush) { usleep(1); counter++; if
\* (counter==10) SignalAll }.  able_to_flush only ever goes from false to true,
\* so an iteration that finds it false and does not signal changes nothing;
\* the step taken on a false flag is the tenth such iteration.
CompactMemTableWait(i) ==
  /\ Running
  /\ bg[i].pc = "cm_wait"
  /\ IF tbl[bg[i].imm].able_to_flush
       THEN /\ bg' = [bg EXCEPT ![i].pc = "cm_sched"]
            /\ UNCHANGED wpc
       ELSE /\ wpc' = SignalAll(wpc)
            /\ UNCHANGED bg
  /\ UNCHANGED <<last_sequence, ncalls, mem_, imm_, tbl, current, bg_error_,
                 shutting_down_, bgQueue, wmem, wseq, wkey, wkind, wret, wbg,
                 next_file_number_, rvars, crashed>>
  /\ UNCHANGED deleted
  /\ UNCHANGED offhandle

\* line 615: imm->SetFlushState(MemTable::FLUSH_SCHEDULED)
CompactMemTableSchedule(i) ==
  /\ Running
  /\ bg[i].pc = "cm_sched"
  /\ tbl' = [tbl EXCEPT ![bg[i].imm] = SetFlushState(@, "FLUSH_SCHEDULED")]
  /\ bg' = [bg EXCEPT ![i].pc = "cm_build"]
  /\ UNCHANGED <<last_sequence, mem_, imm_, current, bg_error_, shutting_down_,
                 bgQueue, wvars, next_file_number_, rvars, crashed>>
  /\ UNCHANGED deleted
  /\ UNCHANGED offhandle

\* lines 616-618: WriteLevel0Table(imm_, &edit, base).  The argument is a
\* fresh load of imm_.  The file gets a new number; it is added to the edit
\* when BuildTable succeeds with a non-empty table (lines 554-584).
WriteLevel0Table(i, ok) ==
  /\ Running
  /\ bg[i].pc = "cm_build"
  /\ IF imm_ = Null
       THEN /\ crashed' = "imm_null_617"
            /\ UNCHANGED <<ncalls, bg, next_file_number_, rvars>>
       ELSE /\ next_file_number_' = next_file_number_ + 1
            /\ bg' = [bg EXCEPT
                 ![i].pc = IF ok THEN "cm_apply" ELSE "cm_error",
                 ![i].st = IF ok THEN "OK" ELSE "IOError",
                 ![i].file = IF ok /\ tbl[imm_].table # {}
                               THEN [number |-> next_file_number_,
                                     from |-> imm_, entries |-> tbl[imm_].table]
                               ELSE NoFile]
            /\ UNCHANGED crashed
  /\ UNCHANGED <<last_sequence, mem_, imm_, tbl, current, bg_error_,
                 shutting_down_, bgQueue, wvars, rvars>>
  /\ UNCHANGED deleted
  /\ UNCHANGED offhandle

\* VersionSet::LogAndApply(edit): publish a new current Version holding the
\* files of the edit
LogAndApply(file) == IF file = NoFile THEN current ELSE Append(current, file)

\* lines 620-629: the shutdown test, then versions_->LogAndApply(&edit)
CompactMemTableApply(i, ok) ==
  /\ Running
  /\ bg[i].pc = "cm_apply"
  /\ \E sd \in ShuttingDownLoad :
       IF sd
         THEN /\ bg' = [bg EXCEPT ![i].pc = "cm_error", ![i].st = DeletingDB]
              /\ UNCHANGED current
         ELSE IF ok
           THEN /\ current' = LogAndApply(bg[i].file)
                /\ bg' = [bg EXCEPT ![i].pc = "cm_commit"]
           ELSE /\ bg' = [bg EXCEPT ![i].pc = "cm_error", ![i].st = "IOError"]
                /\ UNCHANGED current
  /\ UNCHANGED <<last_sequence, mem_, imm_, tbl, bg_error_, shutting_down_,
                 bgQueue, wvars, next_file_number_, rvars, crashed>>
  /\ UNCHANGED deleted
  /\ UNCHANGED offhandle

\* lines 634-642, under mutex_: imm = imm_.load(); imm->Unref();
\* imm_.store(nullptr)
CompactMemTableCommit(i) ==
  /\ Running
  /\ bg[i].pc = "cm_commit"
  /\ ~MutexHeldByGet
  /\ IF imm_ = Null
       THEN /\ crashed' = "imm_null_637"
            /\ UNCHANGED <<ncalls, imm_, tbl, bg>>
       ELSE /\ tbl' = [tbl EXCEPT ![imm_] = Unref(@)]
            /\ imm_' = Null
            /\ bg' = [bg EXCEPT ![i].pc = "cm_signal"]
            /\ UNCHANGED crashed
  /\ UNCHANGED <<last_sequence, mem_, current, bg_error_, shutting_down_,
                 bgQueue, wvars, next_file_number_, rvars>>
  /\ UNCHANGED deleted
  /\ UNCHANGED offhandle

\* line 643: Memtable_full_cv.SignalAll()
CompactMemTableSignal(i) ==
  /\ Running
  /\ bg[i].pc = "cm_signal"
  /\ wpc' = SignalAll(wpc)
  /\ bg' = [bg EXCEPT ![i].pc = "resched"]
  /\ UNCHANGED <<last_sequence, ncalls, mem_, imm_, tbl, current, bg_error_,
                 shutting_down_, bgQueue, wmem, wseq, wkey, wkind, wret, wbg,
                 next_file_number_, rvars, crashed>>
  /\ UNCHANGED deleted
  /\ UNCHANGED offhandle

\* line 648 and lines 724-726: RecordBackgroundError(s) is called without
\* mutex_ (CompactMemTable locks it on its success branch only); the test
\* if (bg_error_.ok())
RecordBackgroundError(i) ==
  /\ Running
  /\ bg[i].pc = "cm_error"
  /\ bg' = [bg EXCEPT ![i].pc = IF bg_error_ = "OK" THEN "cm_latch"
                                ELSE "resched"]
  /\ UNCHANGED <<last_sequence, mem_, imm_, tbl, current, bg_error_,
                 shutting_down_, bgQueue, wvars, next_file_number_, rvars,
                 crashed>>
  /\ UNCHANGED deleted
  /\ UNCHANGED offhandle

\* lines 727-728: bg_error_ = s; Memtable_full_cv.SignalAll()
RecordBackgroundErrorStore(i) ==
  /\ Running
  /\ bg[i].pc = "cm_latch"
  /\ bg_error_' = bg[i].st
  /\ wpc' = SignalAll(wpc)
  /\ bg' = [bg EXCEPT ![i].pc = "resched"]
  /\ UNCHANGED <<last_sequence, ncalls, mem_, imm_, tbl, current, shutting_down_,
                 bgQueue, wmem, wseq, wkey, wkind, wret, wbg, next_file_number_, rvars, crashed>>
  /\ UNCHANGED deleted
  /\ UNCHANGED offhandle

\* BackgroundCall, line 769: MaybeScheduleCompaction(); the task ends
BackgroundCallReschedule(i) ==
  /\ Running
  /\ bg[i].pc = "resched"
  /\ IF SchedulesWork
       THEN bgQueue < MaxQueue /\ bgQueue' = bgQueue + 1
       ELSE UNCHANGED bgQueue
  /\ bg' = [bg EXCEPT ![i] = IdleWorker]
  /\ UNCHANGED <<last_sequence, mem_, imm_, tbl, current, bg_error_,
                 shutting_down_, wvars, next_file_number_, rvars, crashed>>
  /\ UNCHANGED deleted
  /\ UNCHANGED offhandle

\* ================================================================= reads
\* the entry with the greatest sequence among the entries S
Newest(S) == CHOOSE e \in S : \A f \in S : wseq[f] <= wseq[e]

\* VersionSet::LastSequence()
LastSequence == last_sequence

\* MemTable::Get(lkey): the entry of the user key with the greatest sequence
\* <= the snapshot among the entries `table`, or Null
NewestEntry(table, k, snapshot) ==
  LET hits == {e \in table : wkey[e] = k /\ wseq[e] <= snapshot}
  IN IF hits = {} THEN Null ELSE Newest(hits)

MemTableGet(t, k, snapshot) == NewestEntry(tbl[t].table, k, snapshot)

\* Version::Get(lkey): level-0 files are searched from the newest file to the
\* oldest and the first file that holds the key decides
RECURSIVE VersionGet(_, _, _)
VersionGet(v, k, snapshot) ==
  IF v = << >> THEN Null
  ELSE LET e == NewestEntry(v[Len(v)].entries, k, snapshot)
       IN IF e # Null THEN e ELSE VersionGet(SubSeq(v, 1, Len(v) - 1), k, snapshot)

\* Version::UpdateStats(stats): a file's allowed_seeks budget is far above the
\* number of lookups of a modelled run, so no seek compaction is triggered
UpdateStats == FALSE

Ref(m) == [m EXCEPT !.refs = @ + 1]

\* Get, lines 1191-1200 (mutex_ taken): the snapshot sequence, then mem = mem_
GetBegin(k, snap) ==
  /\ Running
  /\ ~shutting_down_
  /\ rpc = "idle"
  /\ LET snapshot == IF snap = NoSnapshot THEN LastSequence
                     ELSE snap.sequence_number
         done == {c \in Calls : wpc[c] = "done" /\ wkey[c] = k
                                 /\ wseq[c] <= snapshot}
     IN rd' = [IdleReader EXCEPT
                 !.key = k, !.snapshot = snapshot, !.mem = mem_,
                 !.given = (snap # NoSnapshot),
                 !.taken = snap.taken,
                 !.returned = IF done = {} THEN Null ELSE Newest(done)]
  /\ rpc' = "load_imm"
  /\ UNCHANGED <<last_sequence, mem_, imm_, tbl, current, bg_error_,
                 shutting_down_, bgQueue, bg, wvars, next_file_number_,
                 snapshots_, crashed>>
  /\ UNCHANGED deleted
  /\ UNCHANGED offhandle

\* lines 1201-1205 (mutex_ still held): imm = imm_, current =
\* versions_->current(), and the three Ref() calls
GetLoadImm ==
  /\ Running
  /\ rpc = "load_imm"
  /\ rd' = [rd EXCEPT !.imm = imm_, !.current = current]
  /\ LET t1 == [tbl EXCEPT ![rd.mem] = Ref(@)]
     IN tbl' = IF imm_ = Null THEN t1 ELSE [t1 EXCEPT ![imm_] = Ref(@)]
  /\ rpc' = "lookup"
  /\ UNCHANGED <<last_sequence, mem_, imm_, current, bg_error_,
                 shutting_down_, bgQueue, bg, wvars, next_file_number_,
                 snapshots_, crashed>>
  /\ UNCHANGED deleted
  /\ UNCHANGED offhandle

\* lines 1212-1222 (mutex_ released): mem->Get, else imm->Get, else
\* current->Get; a deletion entry ends the search with NotFound
GetLookup ==
  /\ Running
  /\ rpc = "lookup"
  /\ LET inmem == MemTableGet(rd.mem, rd.key, rd.snapshot)
         inimm == IF rd.imm = Null THEN Null
                  ELSE MemTableGet(rd.imm, rd.key, rd.snapshot)
         e == IF inmem # Null THEN inmem
              ELSE IF inimm # Null THEN inimm
              ELSE VersionGet(rd.current, rd.key, rd.snapshot)
         all == tbl[rd.mem].table
                  \cup (IF rd.imm = Null THEN {} ELSE tbl[rd.imm].table)
                  \cup UNION {rd.current[j].entries : j \in 1 .. Len(rd.current)}
     IN rd' = [rd EXCEPT !.found = e,
                 !.s = IF e = Null \/ wkind[e] = "kTypeDeletion"
                         THEN "NotFound" ELSE "OK",
                 !.best = NewestEntry(all, rd.key, rd.snapshot)]
  /\ rpc' = "done"
  /\ UNCHANGED <<last_sequence, mem_, imm_, tbl, current, bg_error_,
                 shutting_down_, bgQueue, bg, wvars, next_file_number_,
                 snapshots_, crashed>>
  /\ UNCHANGED deleted
  /\ UNCHANGED offhandle

\* lines 1223-1232 (mutex_ taken again): the Unref() calls; Get returns s
GetReturn ==
  /\ Running
  /\ rpc = "done"
  /\ LET t1 == [tbl EXCEPT ![rd.mem] = Unref(@)]
     IN tbl' = IF rd.imm = Null THEN t1 ELSE [t1 EXCEPT ![rd.imm] = Unref(@)]
  /\ IF UpdateStats /\ SchedulesWork
       THEN bgQueue < MaxQueue /\ bgQueue' = bgQueue + 1
       ELSE UNCHANGED bgQueue
  /\ rpc' = "idle"
  /\ rd' = IdleReader
  /\ UNCHANGED <<last_sequence, mem_, imm_, current, bg_error_,
                 shutting_down_, bg, wvars, next_file_number_,
                 snapshots_, crashed>>
  /\ UNCHANGED deleted
  /\ UNCHANGED offhandle

\* GetSnapshot, lines 1254-1257: snapshots_.New(versions_->LastSequence())
GetSnapshot ==
  /\ Running
  /\ ~shutting_down_
  /\ ~MutexHeldByGet
  /\ Cardinality(snapshots_) < MaxSnapshots
  /\ snapshots_' = snapshots_ \cup
                     {[sequence_number |-> LastSequence, taken |-> ncalls]}
  /\ UNCHANGED <<last_sequence, mem_, imm_, tbl, current, bg_error_,
                 shutting_down_, bgQueue, bg, wvars, next_file_number_,
                 rpc, rd, crashed>>
  /\ UNCHANGED deleted
  /\ UNCHANGED offhandle

\* ReleaseSnapshot, lines 1259-1262
ReleaseSnapshot(snap) ==
  /\ Running
  /\ ~shutting_down_
  /\ ~MutexHeldByGet
  /\ snap \in snapshots_
  /\ snapshots_' = snapshots_ \ {snap}
  /\ UNCHANGED <<last_sequence, mem_, imm_, tbl, current, bg_error_,
                 shutting_down_, bgQueue, bg, wvars, next_file_number_,
                 rpc, rd, crashed>>
  /\ UNCHANGED deleted
  /\ UNCHANGED offhandle


\* ~DBImpl, lines 197-198: mutex_.Lock(); shutting_down_.store(true).
\* The caller has no operation in progress on the handle it deletes.
DestructorBegin ==
  /\ Running
  /\ ~shutting_down_
  /\ InFlight = {}
  /\ rpc = "idle"
  /\ shutting_down_' = TRUE
  /\ UNCHANGED <<last_sequence, mem_, imm_, tbl, current, bg_error_, bgQueue,
                 bg, wvars, next_file_number_, rvars, crashed>>
  /\ UNCHANGED deleted
  /\ UNCHANGED offhandle

\* ~DBImpl, lines 199-222: the wait loop on background_compaction_scheduled_
\* ends at once (the flag is false from the constructor on, lines 744 and 765
\* are comments), then delete versions_, mem_->Unref(), imm_->Unref() and the
\* other members are deleted
DestructorFinish ==
  /\ Running
  /\ shutting_down_
  /\ ~deleted
  /\ deleted' = TRUE
  /\ LET t1 == [tbl EXCEPT ![mem_] = Unref(@)]
     IN tbl' = IF imm_ = Null THEN t1 ELSE [t1 EXCEPT ![imm_] = Unref(@)]
  /\ UNCHANGED <<last_sequence, mem_, imm_, current, bg_error_, shutting_down_,
                 bgQueue, bg, wvars, next_file_number_, rvars, crashed>>
  /\ UNCHANGED offhandle

\* a pool thread that runs a task on the deleted DBImpl reads freed memory:
\* the process may fault here, or go on with what the memory still holds
\* (the steps of the flush path stay enabled)
UseAfterDelete(i) ==
  /\ Running
  /\ deleted
  /\ bg[i].pc # "idle"
  /\ crashed' = "use_after_delete"
  /\ UNCHANGED <<last_sequence, mem_, imm_, tbl, current, bg_error_,
                 shutting_down_, bgQueue, bg, wvars, next_file_number_, rvars,
                 deleted>>
  /\ UNCHANGED offhandle

\* the destructor, and what it does to the pool threads
Destructor ==
  \/ DestructorBegin
  \/ DestructorFinish
  \/ \E i \in Workers : UseAfterDelete(i)

\* ============================================================ CompactRange
\* CompactRange, lines 653-662: under mutex_, the highest level above 0 with
\* files that overlap the range, or 1.  The Versions of this model hold
\* level-0 files only.
CompactRangeLevels ==
  /\ Running
  /\ ~shutting_down_
  /\ cr.pc = "none"
  /\ ~MutexHeldByGet
  /\ cr' = [pc |-> "flush", max_level_with_files |-> 1]
  /\ UNCHANGED <<last_sequence, mem_, imm_, tbl, current, bg_error_,
                 shutting_down_, bgQueue, bg, wvars, next_file_number_, rvars,
                 crashed, deleted>>
  /\ UNCHANGED offdb

\* CompactRange, line 663: TEST_CompactMemTable calls Write(WriteOptions(),
\* nullptr) (line 711), and Write starts with
\* WriteBatchInternal::Count(updates) (line 1357), which reads the header
\* of the batch through the null pointer
CompactRangeFlush ==
  /\ Running
  /\ cr.pc = "flush"
  /\ crashed' = "null_batch_1357"
  /\ UNCHANGED <<last_sequence, mem_, imm_, tbl, current, bg_error_,
                 shutting_down_, bgQueue, bg, wvars, next_file_number_, rvars,
                 deleted, cr>>
  /\ UNCHANGED offdb

\* ======================================================= TEST_CompactRange
kNumLevels == 7

\* TEST_CompactRange, lines 668-691: the ManualCompaction on the caller's
\* stack (done = false), then MutexLock l(&mutex_)
TEST_CompactRangeBegin(level, begin, end) ==
  /\ Running
  /\ ~deleted
  /\ mc.pc = "none"
  /\ ~MutexHeldByGet
  /\ mc' = [mc EXCEPT !.pc = "loop", !.level = level, !.begin = begin,
                      !.end = end, !.done = FALSE]
  /\ UNCHANGED dbvars
  /\ UNCHANGED offManual

\* lines 692-705, under mutex_: the loop test; an idle slot is taken
\* (manual_compaction_ = &manual; MaybeScheduleCompaction()), otherwise the
\* caller waits on Memtable_full_cv; when the loop ends the slot is given
\* back and the call returns
TEST_CompactRangeLoop ==
  /\ Running
  /\ mc.pc = "loop"
  /\ IF mc.done \/ shutting_down_ \/ bg_error_ # "OK"
       THEN /\ mc' = [mc EXCEPT !.pc = "returned", !.manual_compaction_ = Null]
            /\ UNCHANGED bgQueue
       ELSE IF manual_compaction_ = Null
         THEN /\ mc' = [mc EXCEPT !.manual_compaction_ = AddrOfManual]
              /\ bgQueue < MaxQueue
              /\ bgQueue' = bgQueue + 1
         ELSE /\ mc' = [mc EXCEPT !.pc = "waiting"]
              /\ UNCHANGED bgQueue
  /\ UNCHANGED <<last_sequence, mem_, imm_, tbl, current, bg_error_,
                 shutting_down_, bg, wvars, next_file_number_, rvars, crashed,
                 deleted, cr>>
  /\ UNCHANGED offManual

\* Memtable_full_cv.Wait() returns (a SignalAll of the flush path, or a
\* wake-up nobody signalled) and the mutex is taken again
TEST_CompactRangeWake ==
  /\ Running
  /\ mc.pc = "waiting"
  /\ mc' = [mc EXCEPT !.pc = "loop"]
  /\ UNCHANGED dbvars
  /\ UNCHANGED offManual

\* ================================================ WriteLevel0Table, by step
MaxTables == 3

\* the statements of WriteLevel0Table that read or write pending_outputs_
\* (lines 555 and 571); mutex_ is not held (line 551), so two pool threads
\* standing at such a statement execute them without any ordering
AtPendingOutputs(t) == wl.pc[t] \in {"insert", "erase"}
Unordered(t) == \E u \in 1 .. NumBG : u # t /\ AtPendingOutputs(u)

\* what a std::set operation leaves behind: its result when nothing else
\* touches the set; when another thread is at the set too the behaviour is
\* undefined and the operation may also be lost
SetOutcomes(t, result) ==
  IF Unordered(t) THEN {result, wl.pending_outputs_} ELSE {result}

\* lines 549-554: CompactMemTable's edit is a fresh VersionEdit (line 613);
\* meta.number = versions_->NewFileNumber()
WriteLevel0TableNewFileNumber(t) ==
  /\ ~wl.crashed
  /\ wl.pc[t] \in {"idle", "returned"}
  /\ wl.next_file_number_ <= MaxTables
  /\ wl' = [wl EXCEPT !.pc[t] = "insert",
                      !.meta[t] = [number |-> wl.next_file_number_, file_size |-> 0],
                      !.s[t] = "OK",
                      !.before[t] = << >>,
                      !.edit[t] = << >>,
                      !.next_file_number_ = @ + 1]
  /\ UNCHANGED dbvars
  /\ UNCHANGED offLevel0

\* line 555: pending_outputs_.insert(meta.number)
WriteLevel0TableInsert(t) ==
  /\ ~wl.crashed
  /\ wl.pc[t] = "insert"
  /\ \/ \E after \in SetOutcomes(t, wl.pending_outputs_ \cup {wl.meta[t].number}) :
          wl' = [wl EXCEPT !.pc[t] = "build", !.pending_outputs_ = after]
     \/ /\ Unordered(t)
        /\ wl' = [wl EXCEPT !.crashed = TRUE]
  /\ UNCHANGED dbvars
  /\ UNCHANGED offLevel0

\* lines 556-570: BuildTable fills meta.file_size and returns the status
WriteLevel0TableBuildTable(t, ok, file_size) ==
  /\ ~wl.crashed
  /\ wl.pc[t] = "build"
  /\ wl' = [wl EXCEPT !.pc[t] = "erase",
                      !.meta[t].file_size = file_size,
                      !.s[t] = IF ok THEN "OK" ELSE "IOError"]
  /\ UNCHANGED dbvars
  /\ UNCHANGED offLevel0

\* line 571: pending_outputs_.erase(meta.number)
WriteLevel0TableErase(t) ==
  /\ ~wl.crashed
  /\ wl.pc[t] = "erase"
  /\ \/ \E after \in SetOutcomes(t, wl.pending_outputs_ \ {wl.meta[t].number}) :
          wl' = [wl EXCEPT !.pc[t] = "add", !.pending_outputs_ = after]
     \/ /\ Unordered(t)
        /\ wl' = [wl EXCEPT !.crashed = TRUE]
  /\ UNCHANGED dbvars
  /\ UNCHANGED offLevel0

\* lines 575-590: the file goes into the edit when the build succeeded with
\* a non-empty file; return s
WriteLevel0TableAddFile(t) ==
  /\ ~wl.crashed
  /\ wl.pc[t] = "add"
  /\ wl' = [wl EXCEPT !.pc[t] = "returned",
                      !.edit[t] = IF wl.s[t] = "OK" /\ wl.meta[t].file_size > 0
                                    THEN Append(@, wl.meta[t])
                                    ELSE @]
  /\ UNCHANGED dbvars
  /\ UNCHANGED offLevel0

\* ===================================================== RemoveObsoleteFiles
MaxFileNumber == 2
MaxDirFiles == 3

\* the FileType of a name as ParseFileName reports it; "unparsable" is a name
\* for which ParseFileName returns false
NumberedTypes == {"kLogFile", "kDescriptorFile", "kTableFile", "kTempFile"}
FixedTypes == {"kCurrentFile", "kDBLockFile", "kInfoLogFile", "unparsable"}

\* the names a database directory can hold
FileNames ==
  [type : NumberedTypes, number : 1 .. MaxFileNumber]
    \cup [type : FixedTypes, number : {0}]

\* the listings GetChildren can return
Directories == {d \in SUBSET FileNames : Cardinality(d) <= MaxDirFiles}

\* the switch of lines 291-313 with a log file kept only when it is newer
\* than LogNumber()
Keep_LogNewerOnly(f, live, o) ==
  CASE f.type = "kLogFile" -> f.number > o.LogNumber \/ f.number = o.PrevLogNumber
    [] f.type = "kDescriptorFile" -> f.number >= o.ManifestFileNumber
    [] f.type = "kTableFile" -> f.number \in live
    [] f.type = "kTempFile" -> f.number \in live
    [] OTHER -> TRUE

\* the switch of lines 291-313
Keep(f, live, o) ==
  CASE f.type = "kLogFile" -> f.number >= o.LogNumber \/ f.number = o.PrevLogNumber
    [] f.type = "kDescriptorFile" -> f.number >= o.ManifestFileNumber
    [] f.type = "kTableFile" -> f.number \in live
    [] f.type = "kTempFile" -> f.number \in live
    [] OTHER -> TRUE

\* lines 269-325, under mutex_: nothing is collected after a background
\* error; otherwise live = pending_outputs_ plus the files of every live
\* Version, and every parsable name that is not kept goes to files_to_delete
RemoveObsoleteFilesBegin(err, pending, versionfiles, lognum, prevlog, manifest, dir) ==
  /\ rof.pc = "none"
  /\ LET o == [rof EXCEPT !.bg_error_ = err, !.pending_outputs_ = pending,
                          !.live = pending \cup versionfiles,
                          !.LogNumber = lognum, !.PrevLogNumber = prevlog,
                          !.ManifestFileNumber = manifest, !.filenames = dir]
     IN rof' = IF err # "OK"
                 THEN [o EXCEPT !.pc = "returned"]
                 ELSE [o EXCEPT !.pc = "unlocked",
                         !.files_to_delete =
                           {f \in dir : f.type # "unparsable" /\ ~Keep(f, o.live, o)}]
  /\ UNCHANGED dbvars
  /\ UNCHANGED offObsolete

\* lines 329-332: env_->RemoveFile for one collected name, mutex_ released
RemoveObsoleteFilesRemoveFile ==
  /\ rof.pc = "unlocked"
  /\ rof.files_to_delete # {}
  /\ LET f == CHOOSE g \in rof.files_to_delete : TRUE
     IN rof' = [rof EXCEPT !.files_to_delete = @ \ {f},
                          !.filenames = @ \ {f},
                          !.removed = @ \cup {f}]
  /\ UNCHANGED dbvars
  /\ UNCHANGED offObsolete

\* line 333: mutex_.Lock() and return
RemoveObsoleteFilesReturn ==
  /\ rof.pc = "unlocked"
  /\ rof.files_to_delete = {}
  /\ rof' = [rof EXCEPT !.pc = "returned"]
  /\ UNCHANGED dbvars
  /\ UNCHANGED offObsolete

\* ================================================================ DB::Open
\* One client opens the database directory, closes the handle it got, and
\* opens again.  dbopen.current_file is the CURRENT file of the directory.
StatusOfEnv == {"OK", "IOError"}

\* DB::Open, lines 1802-1808: *dbptr = nullptr; impl = new DBImpl(options,
\* dbname); the call of impl->Recover
OpenBegin(cim, eie) ==
  /\ dbopen.pc = "closed"
  /\ dbopen.nopen < MaxOpens
  /\ dbopen' = [dbopen EXCEPT !.pc = "lock", !.create_if_missing = cim,
                  !.error_if_exists = eie, !.existed = dbopen.current_file,
                  !.locked = FALSE, !.db_lock_ = FALSE, !.newdb = "none",
                  !.recovered = FALSE, !.mem = FALSE, !.save_manifest = FALSE,
                  !.s = "OK", !.dbptr = "nullptr", !.nopen = @ + 1]
  /\ UNCHANGED dbvars
  /\ UNCHANGED offOpen

\* Recover, lines 342-347: env_->CreateDir, env_->LockFile
RecoverLockFile(st) ==
  /\ dbopen.pc = "lock"
  /\ dbopen' = IF st = "OK"
       THEN [dbopen EXCEPT !.pc = "exists", !.locked = TRUE, !.db_lock_ = TRUE]
       ELSE [dbopen EXCEPT !.pc = "finish", !.s = st]
  /\ UNCHANGED dbvars
  /\ UNCHANGED offOpen

\* DBImpl::NewDB, lines 225-257: the CURRENT file exists afterwards iff every
\* step up to SetCurrentFile has succeeded
NewDB(st) == st = "OK"

\* the variant of RecoverExists that does not look at error_if_exists
RecoverExists_IgnoresErrorIfExists(st) ==
  /\ dbopen.pc = "exists"
  /\ IF ~dbopen.current_file
       THEN IF dbopen.create_if_missing
              THEN dbopen' = [dbopen EXCEPT
                     !.newdb = st, !.current_file = NewDB(st),
                     !.s = st, !.pc = IF st = "OK" THEN "recover" ELSE "finish"]
              ELSE /\ st = "OK"
                   /\ dbopen' = [dbopen EXCEPT !.s = "InvalidArgument",
                                                !.pc = "finish"]
       ELSE /\ st = "OK"
            /\ dbopen' = [dbopen EXCEPT !.pc = "recover"]
  /\ UNCHANGED dbvars
  /\ UNCHANGED offOpen

\* Recover, lines 349-366: the test of the CURRENT file, NewDB, and the two
\* InvalidArgument returns.  st is the status of NewDB where it is called.
RecoverExists(st) ==
  /\ dbopen.pc = "exists"
  /\ IF ~dbopen.current_file
       THEN IF dbopen.create_if_missing
              THEN dbopen' = [dbopen EXCEPT
                     !.newdb = st, !.current_file = NewDB(st),
                     !.s = st, !.pc = IF st = "OK" THEN "recover" ELSE "finish"]
              ELSE /\ st = "OK"
                   /\ dbopen' = [dbopen EXCEPT !.s = "InvalidArgument",
                                                !.pc = "finish"]
       ELSE /\ st = "OK"
            /\ dbopen' = IF dbopen.error_if_exists
                 THEN [dbopen EXCEPT !.s = "InvalidArgument", !.pc = "finish"]
                 ELSE [dbopen EXCEPT !.pc = "recover"]
  /\ UNCHANGED dbvars
  /\ UNCHANGED offOpen

\* Recover, lines 368-427: versions_->Recover, GetChildren, the missing-file
\* test and RecoverLogFile for every log.  st is the first status that is
\* not OK, m tells whether RecoverLogFile has installed mem_ (reuse_logs),
\* sm is *save_manifest.
RecoverLogs(st, m, sm) ==
  /\ dbopen.pc = "recover"
  /\ dbopen' = IF st = "OK"
       THEN [dbopen EXCEPT !.pc = "newlog", !.recovered = TRUE, !.mem = m,
                           !.save_manifest = sm]
       ELSE [dbopen EXCEPT !.pc = "finish", !.recovered = TRUE, !.s = st]
  /\ UNCHANGED dbvars
  /\ UNCHANGED offOpen

\* DB::Open, lines 1809-1827: the new log file and the first MemTable
OpenNewLog(st) ==
  /\ dbopen.pc = "newlog"
  /\ dbopen' = IF dbopen.mem
       THEN [dbopen EXCEPT !.pc = "apply"]
       ELSE IF st = "OK" THEN [dbopen EXCEPT !.pc = "apply", !.mem = TRUE]
       ELSE [dbopen EXCEPT !.pc = "finish", !.s = st]
  /\ UNCHANGED dbvars
  /\ UNCHANGED offOpen

\* DB::Open, lines 1828-1832: LogAndApply of the recovery edit
OpenLogAndApply(st) ==
  /\ dbopen.pc = "apply"
  /\ dbopen' = IF dbopen.save_manifest
       THEN [dbopen EXCEPT !.pc = "finish", !.s = st]
       ELSE [dbopen EXCEPT !.pc = "finish"]
  /\ UNCHANGED dbvars
  /\ UNCHANGED offOpen

\* DB::Open, lines 1833-1844: when s is OK, RemoveObsoleteFiles and
\* MaybeScheduleCompaction (which finds imm_ null and schedules nothing), and
\* the handle is handed out; else impl is deleted (~DBImpl unlocks the lock
\* file, line 206)
OpenReturn ==
  /\ dbopen.pc = "finish"
  /\ dbopen' = IF dbopen.s = "OK"
       THEN [dbopen EXCEPT !.pc = "returned", !.dbptr = "impl"]
       ELSE [dbopen EXCEPT !.pc = "returned", !.db_lock_ = FALSE, !.mem = FALSE]
  /\ UNCHANGED dbvars
  /\ UNCHANGED offOpen

\* the client deletes the handle it got, if any (~DBImpl, lines 205-207), and
\* is free to call Open again
CloseHandle ==
  /\ dbopen.pc = "returned"
  /\ dbopen' = [dbopen EXCEPT !.pc = "closed", !.db_lock_ = FALSE]
  /\ UNCHANGED dbvars
  /\ UNCHANGED offOpen

\* ================================================================== Block
MaxBlockBytes == 8
MaxByte == 1

\* the two versions of block.cc in the repository
BlockSources == {"table/block.cc", "unnamed/part_000"}

\* the contents a Block is built from: at most MaxBlockBytes bytes
BlockContents ==
  UNION {[1 .. n -> 0 .. MaxByte] : n \in 0 .. MaxBlockBytes}

\* DecodeFixed32 of the four bytes that start at offset + 1: little-endian
DecodeFixed32(data, offset) ==
  data[offset + 1] + 256 * data[offset + 2] + 65536 * data[offset + 3]
    + 16777216 * data[offset + 4]

\* NumRestarts, lines 13-16, for a size of at least 4
NumRestarts(data, size) == DecodeFixed32(data, size - 4)

\* what NumRestarts() can return to NewIterator: the stored count, or, when
\* size_ is 0 and the assert of line 14 is compiled out, whatever four bytes
\* precede the buffer
NumRestartsRead ==
  IF blk.size_ >= 4 THEN {NumRestarts(blk.contents, blk.size_)} ELSE 0 .. 1

\* Block::Block, lines 18-49.  The assert(false) of table/block.cc line 33
\* aborts a build without NDEBUG; restart_offset_ is set only for a block
\* that is not marked
BlockBlock(source, ndebug, contents, type) ==
  /\ blk.pc = "none"
  /\ LET size == Len(contents)
         b == [blk EXCEPT !.source = source, !.ndebug = ndebug,
                          !.contents = contents, !.type = type,
                          !.rdma_mg_ = IF type = "Block_On_Memory_Side"
                                         THEN "Memory_Node_Keeper::rdma_mg"
                                         ELSE "Env::Default()->rdma_mg"]
     IN blk' =
          IF size < 4
            THEN [b EXCEPT !.pc = "built", !.size_ = 0]
            ELSE IF NumRestarts(contents, size) > (size - 4) \div 4
              THEN IF source = "table/block.cc" /\ ~ndebug
                     THEN [b EXCEPT !.pc = "aborted", !.size_ = size]
                     ELSE [b EXCEPT !.pc = "built", !.size_ = 0]
              ELSE [b EXCEPT !.pc = "built", !.size_ = size,
                      !.restart_offset_ =
                        size - (1 + NumRestarts(contents, size)) * 4]
  /\ UNCHANGED dbvars
  /\ UNCHANGED offBlock

\* Block::NewIterator of part_000, lines 67-77: a marked block gives the
\* error iterator
BlockNewIteratorChecked ==
  /\ blk.pc = "built"
  /\ blk.source = "unnamed/part_000"
  /\ blk' = [blk EXCEPT !.pc = "iterated",
                        !.iterator =
                          IF blk.size_ < 4 THEN "Corruption: bad block contents"
                          ELSE IF NumRestarts(blk.contents, blk.size_) = 0
                            THEN "EmptyIterator"
                            ELSE "Iter"]
  /\ UNCHANGED dbvars
  /\ UNCHANGED offBlock

\* Block::NewIterator of table/block.cc, lines 88-99: the test of size_ is
\* commented out (89-91).  On a marked block NumRestarts() fails its assert
\* (line 14); without the assert it reads before the buffer (the read may
\* fault), and Iter gets a restart_offset_ that was never set
BlockNewIterator ==
  /\ blk.pc = "built"
  /\ blk.source = "table/block.cc"
  /\ IF blk.size_ < 4 /\ ~blk.ndebug
       THEN blk' = [blk EXCEPT !.pc = "aborted"]
       ELSE \/ \E num_restarts \in NumRestartsRead :
                 blk' = [blk EXCEPT !.pc = "iterated",
                                    !.iterator = IF num_restarts = 0
                                                   THEN "EmptyIterator" ELSE "Iter"]
            \/ /\ blk.size_ < 4
               /\ blk' = [blk EXCEPT !.pc = "aborted"]
  /\ UNCHANGED dbvars
  /\ UNCHANGED offBlock

\* ============================================================ VersionEdit
MaxEdits == 4
MaxMetaData == 2
MaxNodeId == 2

\* the RemoteMemTableMetaData objects the shared_ptrs point to, and the
\* levels and file numbers of the calls
MetaDataPtrs == 1 .. MaxMetaData
EditLevels == 0 .. 1

\* AddFile, version_edit.h lines 204-207
AddFile(new_files, level, remote_table) ==
  Append(new_files, <<level, remote_table>>)

\* AddFileIfNotExist, lines 214-224: return when some pair of new_files_
\* holds the same shared_ptr; else emplace_back when file_size > 0
AddFileIfNotExist(new_files, level, remote_table) ==
  IF \E i \in 1 .. Len(new_files) : new_files[i][2] = remote_table
    THEN new_files
    ELSE IF ve.file_size[remote_table] > 0
      THEN Append(new_files, <<level, remote_table>>)
      ELSE new_files

\* RemoveFile, line 234: deleted_files_.insert(make_tuple(level, file,
\* node_id))
RemoveFile(deleted_files, level, file, node_id) ==
  deleted_files \cup {<<level, file, node_id>>}

\* the bookkeeping of a call: the operation, the sets before it, and whether
\* it repeats the call before it
Applied(op) ==
  [ve EXCEPT !.op = op,
             !.before = [new_files_ |-> ve.new_files_,
                         deleted_files_ |-> ve.deleted_files_],
             !.twice = (ve.op = op),
             !.edits = @ + 1]

\* VersionEdit(), line 159, in a build with or without NDEBUG; sizes are the
\* file_size fields of the tables the callers hold
VersionEditClear(ndebug, sizes) ==
  /\ ve.pc = "none"
  /\ ve' = [ve EXCEPT !.pc = "edit", !.ndebug = ndebug, !.file_size = sizes]
  /\ UNCHANGED dbvars
  /\ UNCHANGED offVersionEdit

VersionEditAddFile(level, remote_table) ==
  /\ ve.pc = "edit"
  /\ ve.edits < MaxEdits
  /\ ve' = [Applied(<<"AddFile", level, remote_table>>) EXCEPT
              !.new_files_ = AddFile(ve.new_files_, level, remote_table)]
  /\ UNCHANGED dbvars
  /\ UNCHANGED offVersionEdit

VersionEditAddFileIfNotExist(level, remote_table) ==
  /\ ve.pc = "edit"
  /\ ve.edits < MaxEdits
  /\ ve' = [Applied(<<"AddFileIfNotExist", level, remote_table>>) EXCEPT
              !.new_files_ = AddFileIfNotExist(ve.new_files_, level, remote_table)]
  /\ UNCHANGED dbvars
  /\ UNCHANGED offVersionEdit

\* RemoveFile, lines 226-235: assert(node_id < 2) aborts a build without
\* NDEBUG
VersionEditRemoveFile(level, file, node_id) ==
  /\ ve.pc = "edit"
  /\ ve.edits < MaxEdits
  /\ ve' = IF ~ve.ndebug /\ ~(node_id < 2)
       THEN [ve EXCEPT !.pc = "aborted"]
       ELSE [Applied(<<"RemoveFile", level, file, node_id>>) EXCEPT
               !.deleted_files_ = RemoveFile(ve.deleted_files_, level, file, node_id)]
  /\ UNCHANGED dbvars
  /\ UNCHANGED offVersionEdit

\* ================================================ Recover: the files test
\* the directories a database leaves behind when some of its files are lost:
\* NewFileNumber hands out every number once, so a number names one file,
\* and a number of the Version set names a table
DirectoriesOf(live) ==
  {d \in Directories :
     /\ \A f, g \in d : f.number = g.number /\ f.number # 0 => f = g
     /\ \A f \in d : f.number \in live => f.type = "kTableFile"}

\* lines 388-399 with one missing file tolerated
Expected_OneTolerated(live, filenames) ==
  LET left == live \ {f.number : f \in {g \in filenames : g.type # "unparsable"}}
  IN IF Cardinality(left) <= 1 THEN {} ELSE left

\* lines 388-399: expected holds the files of the Version set; the number
\* of every name ParseFileName accepts is erased from it
Expected(live, filenames) ==
  live \ {f.number : f \in {g \in filenames : g.type # "unparsable"}}

\* lines 368-383: versions_->Recover reads the MANIFEST: the Version set,
\* LogNumber, PrevLogNumber and LastSequence
RecoverVersions(st, live, min_log, prev_log, seq, dir) ==
  /\ rec.pc = "none"
  /\ rec' = [rec EXCEPT !.pc = IF st = "OK" THEN "children" ELSE "finish",
                        !.s = st, !.live = live, !.filenames = dir,
                        !.min_log = min_log, !.prev_log = prev_log,
                        !.manifest_sequence = seq, !.last_sequence = seq]
  /\ UNCHANGED dbvars
  /\ UNCHANGED offRecoverFiles

\* lines 384-405: GetChildren, the loop over the names, and the Corruption
\* return when a file of the Version set has no name in the directory
RecoverExpected(st) ==
  /\ rec.pc = "children"
  /\ rec' = IF st # "OK"
       THEN [rec EXCEPT !.pc = "finish", !.s = st]
       ELSE LET expected == Expected(rec.live, rec.filenames)
                logs == {f.number : f \in
                           {g \in rec.filenames :
                              /\ g.type = "kLogFile"
                              /\ (g.number >= rec.min_log \/ g.number = rec.prev_log)}}
            IN IF expected # {}
                 THEN [rec EXCEPT !.pc = "finish", !.s = "Corruption",
                                  !.listed = TRUE,
                                  !.expected = expected, !.logs = logs]
                 ELSE [rec EXCEPT !.pc = "replay", !.listed = TRUE,
                                  !.logs = logs]
  /\ UNCHANGED dbvars
  /\ UNCHANGED offRecoverFiles

\* lines 408-421: RecoverLogFile of the oldest log not yet replayed; seq is
\* the largest sequence number it found
RecoverReplay(st, seq) ==
  /\ rec.pc = "replay"
  /\ rec.logs # rec.replayed
  /\ LET number == CHOOSE n \in rec.logs \ rec.replayed :
                      \A k \in rec.logs \ rec.replayed : n <= k
         max_sequence == IF seq > rec.max_sequence THEN seq ELSE rec.max_sequence
     IN rec' = IF st = "OK"
          THEN [rec EXCEPT !.replayed = @ \cup {number},
                           !.max_sequence = max_sequence]
          ELSE [rec EXCEPT !.replayed = @ \cup {number},
                           !.max_sequence = max_sequence,
                           !.pc = "finish", !.s = st]
  /\ UNCHANGED dbvars
  /\ UNCHANGED offRecoverFiles

\* lines 423-427: versions_->SetLastSequence(max_sequence) when it is larger
RecoverLastSequence ==
  /\ rec.pc = "replay"
  /\ rec.logs = rec.replayed
  /\ rec' = [rec EXCEPT !.pc = "finish",
                        !.last_sequence = IF @ < rec.max_sequence
                                            THEN rec.max_sequence ELSE @]
  /\ UNCHANGED dbvars
  /\ UNCHANGED offRecoverFiles

\* DB::Open, lines 1809-1844: after a Recover that succeeded, the new log
\* and LogAndApply (st is their status); the handle is handed out when s is
\* OK, else impl is deleted and *dbptr stays nullptr
RecoverOpenReturn(st) ==
  /\ rec.pc = "finish"
  /\ LET s == IF rec.s = "OK" THEN st ELSE rec.s
     IN rec' = [rec EXCEPT !.pc = "returned", !.s = s,
                          !.dbptr = IF s = "OK" THEN "impl" ELSE "nullptr"]
  /\ UNCHANGED dbvars
  /\ UNCHANGED offRecoverFiles

\* ========================================================= RecoverLogFile
\* A log file is a sequence of records.  "damaged" is a stretch of the file
\* that log::Reader cannot decode (bad checksum, bad length): the reader
\* reports it and goes on with the next record.  "small" is a well-formed
\* record shorter than the 12-byte header of a WriteBatch.  "malformed" is a
\* record of 12 bytes or more that InsertInto rejects.  last_seq is
\* Sequence(batch) + Count(batch) - 1 of the header of the record.
LogRecords ==
  {[kind |-> k, last_seq |-> 0] : k \in {"damaged", "small"}}
    \cup {[kind |-> k, last_seq |-> q] : k \in {"batch", "malformed"},
                                        q \in 1 .. MaxLogSeq}

RECURSIVE LogsUpTo(_)
LogsUpTo(n) ==
  IF n = 0 THEN {<< >>}
  ELSE LET L == LogsUpTo(n - 1)
       IN L \cup {Append(l, r) : l \in {x \in L : Len(x) = n - 1}, r \in LogRecords}

\* DBImpl::MaybeIgnoreError, lines 260-267
MaybeIgnoreError(paranoid_checks, st) ==
  IF st.code = "OK" \/ paranoid_checks THEN st ELSE StatusOK

\* the variant of the reporter in which a later report replaces the status
Corruption_LastWins(paranoid_checks, status, st) ==
  IF paranoid_checks THEN st ELSE status

\* LogReporter::Corruption, lines 437-442: reporter.status is &status when
\* paranoid_checks is set and null otherwise (line 461)
Corruption(paranoid_checks, status, st) ==
  IF paranoid_checks /\ status.code = "OK" THEN st ELSE status

\* the position of the first record at or after position p that is not
\* damaged, or Len(log) + 1
RECURSIVE NextReadable(_, _)
NextReadable(log, p) ==
  IF p > Len(log) \/ log[p].kind # "damaged" THEN p
  ELSE NextReadable(log, p + 1)

\* the status after the reader has reported the damaged records p .. q-1 in
\* the order of the file
RECURSIVE ReportDamaged(_, _, _, _)
ReportDamaged(paranoid_checks, status, p, q) ==
  IF p >= q THEN status
  ELSE ReportDamaged(paranoid_checks,
                     Corruption(paranoid_checks, status, CorruptionAt(p)),
                     p + 1, q)

\* the positions p .. q-1 as a sequence
Positions(p, q) == [i \in 1 .. (q - p) |-> p + i - 1]

\* RecoverLogFile, lines 446-468: NewSequentialFile and the reader
RecoverLogFileOpen(st) ==
  /\ rlf.pc = "open"
  /\ rlf' = IF st.code = "OK"
       THEN [rlf EXCEPT !.pc = "read"]
       ELSE [rlf EXCEPT !.pc = "returned",
                        !.status = MaybeIgnoreError(rlf.paranoid_checks, st)]
  /\ UNCHANGED dbvars
  /\ UNCHANGED offRecoverLog

\* RecoverLogFile, lines 469-507: one turn of the loop.  ReadRecord skips
\* the damaged records in front and reports each of them, then the loop
\* tests status.ok(); full says whether the MemTable has outgrown
\* write_buffer_size, st is the status of WriteLevel0Table.
RecoverLogFileRead(full, st) ==
  /\ rlf.pc = "read"
  /\ LET p == NextReadable(rlf.log, rlf.next)
         s1 == ReportDamaged(rlf.paranoid_checks, rlf.status, rlf.next, p)
         r1 == rlf.reports \o Positions(rlf.next, p)
     IN IF p > Len(rlf.log) \/ s1.code # "OK"
          THEN /\ ~full /\ st = StatusOK
               /\ rlf' = [rlf EXCEPT !.pc = "tail", !.status = s1,
                             !.reports = r1,
                             !.next = IF p > Len(rlf.log) THEN p ELSE p + 1]
          ELSE IF rlf.log[p].kind = "small"
            THEN /\ ~full /\ st = StatusOK
                 /\ rlf' = [rlf EXCEPT
                      !.status = Corruption(rlf.paranoid_checks, s1, CorruptionAt(p)),
                      !.reports = Append(r1, p), !.next = p + 1]
          ELSE LET s2 == IF rlf.log[p].kind = "malformed"
                            THEN MaybeIgnoreError(rlf.paranoid_checks, CorruptionAt(p))
                            ELSE s1
               IN IF s2.code # "OK"
                    THEN /\ ~full /\ st = StatusOK
                         /\ rlf' = [rlf EXCEPT !.pc = "tail", !.status = s2,
                                       !.reports = r1, !.next = p + 1,
                                       !.mem = TRUE]
                    ELSE /\ full \/ st = StatusOK
                         /\ rlf' = [rlf EXCEPT
                              !.reports = r1, !.next = p + 1,
                              !.inserted = IF rlf.log[p].kind = "batch"
                                             THEN @ \cup {p} ELSE @,
                              !.max_sequence = IF rlf.log[p].last_seq > @
                                                 THEN rlf.log[p].last_seq ELSE @,
                              !.mem = ~full,
                              !.compactions = IF full THEN @ + 1 ELSE @,
                              !.save_manifest = IF full THEN TRUE ELSE @,
                              !.status = IF full THEN st ELSE s2,
                              !.pc = IF full /\ st.code # "OK" THEN "tail" ELSE "read"]
  /\ UNCHANGED dbvars
  /\ UNCHANGED offRecoverLog

\* RecoverLogFile, lines 509-546: the log is kept as the current one when
\* reuse holds (reuse_logs, last_log, GetFileSize and NewAppendableFile
\* succeed), else what is left in mem is written as a table; st is the
\* status of that WriteLevel0Table
RecoverLogFileTail(reuse, st) ==
  /\ rlf.pc = "tail"
  /\ LET reused == rlf.status.code = "OK" /\ reuse /\ rlf.compactions = 0
         mem == rlf.mem /\ ~reused
     IN /\ (mem /\ rlf.status.code = "OK") \/ st = StatusOK
        /\ rlf' = [rlf EXCEPT
             !.pc = "returned", !.mem_ = reused, !.mem = FALSE,
             !.save_manifest = IF mem /\ rlf.status.code = "OK" THEN TRUE ELSE @,
             !.status = IF mem /\ rlf.status.code = "OK" THEN st ELSE @]
  /\ UNCHANGED dbvars
  /\ UNCHANGED offRecoverLog

\* the variant of the end of Recover that stores max_sequence whatever the
\* recovered value is
RecoverSetLastSequence_Unconditional ==
  /\ rlf.pc = "returned"
  /\ IF rlf.status.code # "OK"
       THEN /\ rlf' = [rlf EXCEPT !.pc = "failed"]
            /\ UNCHANGED last_sequence
       ELSE /\ last_sequence' = rlf.max_sequence
            /\ rlf' = [NoLogFile EXCEPT !.pc = "recovered",
                                        !.max_sequence = rlf.max_sequence]
  /\ UNCHANGED <<mem_, imm_, tbl, current, bg_error_, shutting_down_, bgQueue,
                 bg, wvars, next_file_number_, rvars, crashed, deleted, cr>>
  /\ UNCHANGED offRecoverLog

\* Recover, lines 412-426, for the one log file: a failing RecoverLogFile
\* ends Recover (and Open) with its status; otherwise last_sequence is raised
\* to max_sequence if it is below, and the locals of the recovery are gone
RecoverSetLastSequence ==
  /\ rlf.pc = "returned"
  /\ IF rlf.status.code # "OK"
       THEN /\ rlf' = [rlf EXCEPT !.pc = "failed"]
            /\ UNCHANGED last_sequence
       ELSE /\ last_sequence' = IF last_sequence < rlf.max_sequence
                                  THEN rlf.max_sequence ELSE last_sequence
            /\ rlf' = [NoLogFile EXCEPT !.pc = "recovered",
                                        !.max_sequence = rlf.max_sequence]
  /\ UNCHANGED <<mem_, imm_, tbl, current, bg_error_, shutting_down_, bgQueue,
                 bg, wvars, next_file_number_, rvars, crashed, deleted, cr>>
  /\ UNCHANGED offRecoverLog

\* ======================================================== SanitizeOptions
kNumNonTableCacheFiles == 10

\* ClipToRange<int, int>, lines 133-137
ClipToRangeInt(x, minvalue, maxvalue) ==
  LET x1 == IF x > maxvalue THEN maxvalue ELSE x
  IN IF x1 < minvalue THEN minvalue ELSE x1

\* ClipToRange<size_t, int>, lines 133-137: both tests compare
\* static_cast<int>(*ptr) with the bound, both assignments convert the bound
\* to size_t
ClipToRange(x, minvalue, maxvalue) ==
  LET x1 == IF ToInt(x) > maxvalue THEN FromInt(maxvalue) ELSE x
  IN IF ToInt(x1) < minvalue THEN FromInt(minvalue) ELSE x1

\* SanitizeOptions, lines 138-163, for the four numeric options
SanitizeOptions(src) ==
  [max_open_files |->
     ClipToRangeInt(src.max_open_files, 64 + kNumNonTableCacheFiles, 50000),
   write_buffer_size |-> ClipToRange(src.write_buffer_size, 65536, TwoTo30),
   max_file_size |-> ClipToRange(src.max_file_size, 1048576, TwoTo30),
   block_size |-> ClipToRange(src.block_size, 1024, 4194304)]

\* the size_t values around the bounds minvalue and maxvalue, in every
\* block of 2^30 up to MaxHigh
SizesAround(minvalue, maxvalue) ==
  {SizeT(w, r) : w \in 0 .. MaxHigh,
                 r \in {0, minvalue - 1, minvalue, maxvalue % TwoTo30,
                        (maxvalue + 1) % TwoTo30}}

IntsAround(minvalue, maxvalue) ==
  {-2147483647, -1, 0, minvalue - 1, minvalue, maxvalue, maxvalue + 1, 2147483647}

\* the caller's Options
UserOptions ==
  [max_open_files : IntsAround(64 + kNumNonTableCacheFiles, 50000),
   write_buffer_size : SizesAround(65536, TwoTo30),
   max_file_size : SizesAround(1048576, TwoTo30),
   block_size : SizesAround(1024, 4194304)]

\* DBImpl::DBImpl, line 171: options_(SanitizeOptions(dbname, ..., raw_options))
Sanitize ==
  /\ opts.pc = "src"
  /\ opts' = [opts EXCEPT !.pc = "sanitized", !.result = SanitizeOptions(opts.src)]
  /\ UNCHANGED dbvars
  /\ UNCHANGED offSanitize

\* the sanitized options are handed to SanitizeOptions again
SanitizeAgain ==
  /\ opts.pc = "sanitized"
  /\ opts' = [opts EXCEPT !.pc = "done", !.again = SanitizeOptions(opts.result)]
  /\ UNCHANGED dbvars
  /\ UNCHANGED offSanitize

\* ================================================== RemoteMemTableMetaData
\* A map of chunks is modelled by the number of its entries.
\* Remote_blocks_deallocate, version_edit.h lines 82-91: one call of
\* rdma_mg->Deallocate_Remote_RDMA_Slot per chunk, up to the first call that
\* returns false; found tells whether every call finds its slot.
\* The result is <<calls made, ibv_mr deleted, return value>>.
Remote_blocks_deallocate(map, found) ==
  IF map = 0 THEN <<0, 0, TRUE>>
  ELSE IF found THEN <<map, map, TRUE>>
  ELSE <<1, 0, FALSE>>

\* ~RemoteMemTableMetaData, version_edit.h lines 28-81.  due is what
\* Remote_Memory_Deallocation_Fetch_Buff returns (the batch buffer is due),
\* found whether Deallocate_Remote_RDMA_Slot finds the slots, ndebug whether
\* the assertions are compiled out.
DestroyMetaData(due, found, ndebug) ==
  /\ meta.pc = "alive"
  /\ LET chunk_num == meta.remote_data_mrs + meta.remote_dataindex_mrs
                         + meta.remote_filter_mrs
         d1 == Remote_blocks_deallocate(meta.remote_data_mrs, found)
         d2 == Remote_blocks_deallocate(meta.remote_dataindex_mrs, found)
         d3 == Remote_blocks_deallocate(meta.remote_filter_mrs, found)
     IN IF meta.remote_dataindex_mrs # 1 /\ ~ndebug
          THEN /\ ~due /\ found
               /\ meta' = [meta EXCEPT !.pc = "aborted", !.failed = "assert_31"]
          ELSE IF meta.this_machine_type = 0
            THEN IF meta.creator_node_id = meta.node_id
              THEN /\ ~due
                   /\ IF d1[3] /\ d2[3] /\ d3[3]
                        THEN /\ found
                             /\ meta' = [meta EXCEPT !.pc = "destroyed",
                                  !.slot_calls = d1[1] + d2[1] + d3[1],
                                  !.mrs_deleted = d1[2] + d2[2] + d3[2]]
                        ELSE meta' = [meta EXCEPT
                               !.pc = IF ndebug THEN "destroyed" ELSE "aborted",
                               !.failed = "assert_46",
                               !.slot_calls = IF ~d1[3] THEN d1[1]
                                               ELSE IF ~d2[3] THEN d1[1] + d2[1]
                                               ELSE d1[1] + d2[1] + d3[1],
                               !.mrs_deleted = IF ~d1[3] THEN d1[2]
                                                ELSE IF ~d2[3] THEN d1[2] + d2[2]
                                                ELSE d1[2] + d2[2] + d3[2]]
              ELSE /\ found
                   /\ meta' = [meta EXCEPT !.pc = "destroyed",
                                  !.batched = chunk_num, !.mrs_deleted = chunk_num,
                                  !.rpcs = IF due THEN 1 ELSE 0]
            ELSE /\ ~due /\ found
                 /\ meta' = [meta EXCEPT !.pc = "destroyed",
                                          !.mrs_deleted = chunk_num]
  /\ UNCHANGED dbvars
  /\ UNCHANGED offMetaData

\* the steps a writer thread takes by itself
WriterSteps ==
  \/ \E s \in Calls : PickupLoad(s)
  \/ \E s \in Calls : CheckImm(s)
  \/ \E s \in Calls : WaitEnter(s)
  \/ \E s \in Calls : SetFlushRequested(s)
  \/ \E s \in Calls : CompareExchange(s)
  \/ \E s \in Calls : StoreImm(s)
  \/ \E s \in Calls : ScheduleAndReturn(s)
  \/ \E s \in Calls : Reload(s)
  \/ \E s \in Calls : SearchImm(s)
  \/ \E s \in Calls : Insert(s)
  \/ \E s \in Calls : IncreaseAndReturn(s)

\* the steps of the thread that runs Write call s
WriterStepsOf(s) ==
  \/ PickupLoad(s)
  \/ CheckImm(s)
  \/ WaitEnter(s)
  \/ SetFlushRequested(s)
  \/ CompareExchange(s)
  \/ StoreImm(s)
  \/ ScheduleAndReturn(s)
  \/ Reload(s)
  \/ SearchImm(s)
  \/ Insert(s)
  \/ IncreaseAndReturn(s)

\* the write path: the writers' steps and the wake-ups nobody signalled
WritePath ==
  \/ WriterSteps
  \/ \E s \in Calls : SpuriousWake(s)

\* the flush path run by the pool threads W
FlushPathOf(W) ==
  \/ \E i \in W : BGWork(i)
  \/ \E i \in W : BackgroundCall(i)
  \/ \E i \in W : CompactMemTableLoad(i)
  \/ \E i \in W : CompactMemTableWait(i)
  \/ \E i \in W : CompactMemTableSchedule(i)
  \/ \E i \in W, ok \in BOOLEAN : WriteLevel0Table(i, ok)
  \/ \E i \in W, ok \in BOOLEAN : CompactMemTableApply(i, ok)
  \/ \E i \in W : CompactMemTableCommit(i)
  \/ \E i \in W : CompactMemTableSignal(i)
  \/ \E i \in W : RecordBackgroundError(i)
  \/ \E i \in W : RecordBackgroundErrorStore(i)
  \/ \E i \in W : BackgroundCallReschedule(i)

FlushPath == FlushPathOf(Workers)

\* NumThreads client threads put values (MaxWrites writes in all); no reads
Next ==
  \/ \E k \in Keys : WriteReserve(k, "kTypeValue", NumThreads, MaxWrites)
  \/ WritePath
  \/ FlushPath
  \/ Destructor

Spec == Init /\ [][Next]_vars

\* ---------------------------------------------------- DoCompactionWork
\* the sequences of the entries of a compaction's input files start at 1;
\* an entry of a deeper level has sequence 0
MaxInputSeq == 3
UserKeys == {"a", "b"}
\* kMaxSequenceNumber is 2^56 - 1: above every sequence
kMaxSequenceNumber == 2147483647

\* the input files of a compaction: every sequence belongs to at most one
\* entry
ValueTypes == {"kTypeValue", "kTypeDeletion"}
InputFiles ==
  {{[user_key |-> f[q][1], sequence |-> q, type |-> f[q][2]] :
      q \in {x \in 1 .. MaxInputSeq : f[x] # <<"", "">>}} :
    f \in [1 .. MaxInputSeq -> (UserKeys \X ValueTypes) \cup {<<"", "">>}]}
\* the levels below the output level: at most one older entry of a user key
DeeperLevels ==
  {{[user_key |-> k, sequence |-> 0, type |-> g[k]] :
      k \in {x \in UserKeys : g[x] # ""}} :
    g \in [UserKeys -> ValueTypes \cup {""}]}

\* InternalKeyComparator: user key ascending, then sequence descending
InternalKeyBefore(e, f) ==
  \/ (e.user_key = "a" /\ f.user_key = "b")
  \/ (e.user_key = f.user_key /\ e.sequence > f.sequence)

\* VersionSet::MakeInputIterator: the entries of the input files, merged in
\* the order of the internal keys
RECURSIVE MakeInputIterator(_)
MakeInputIterator(S) ==
  IF S = {} THEN << >>
  ELSE LET e == CHOOSE x \in S : \A y \in S \ {x} : InternalKeyBefore(x, y)
       IN <<e>> \o MakeInputIterator(S \ {e})

\* the registered snapshots: at most MaxSnapshots + 1
SnapshotLists ==
  {x \in SUBSET (0 .. MaxInputSeq + 1) : Cardinality(x) <= MaxSnapshots + 1}

\* SnapshotList::oldest()->sequence_number()
OldestSnapshot(S) == CHOOSE x \in S : \A y \in S : x <= y

\* Compaction::IsBaseLevelForKey: no level below the output level holds the
\* user key
IsBaseLevelForKey(deeper, k) == \A e \in deeper : e.user_key # k

\* a drop rule that takes every entry with a newer entry before it as hidden
Drop_WithoutSnapshot(last_sequence_for_key, smallest_snapshot, ikey, base) ==
  \/ last_sequence_for_key # kMaxSequenceNumber
  \/ /\ ikey.type = "kTypeDeletion"
     /\ ikey.sequence <= smallest_snapshot
     /\ base

\* lines 1046-1061: the decision to drop the entry ikey
Drop(last_sequence_for_key, smallest_snapshot, ikey, base) ==
  \/ last_sequence_for_key <= smallest_snapshot
  \/ /\ ikey.type = "kTypeDeletion"
     /\ ikey.sequence <= smallest_snapshot
     /\ base

\* lines 975-981: smallest_snapshot, and the input iterator over the files of
\* the compaction.  The input files hold distinct sequences up to
\* LastSequence(); every registered snapshot is at most LastSequence().
DoCompactionWorkBegin(S, deeper, snaps, last) ==
  /\ cw.pc = "none"
  /\ \A e \in S : e.sequence <= last
  /\ \A x \in snaps : x <= last
  /\ cw' = [NoCompaction EXCEPT
             !.pc = "loop", !.input = MakeInputIterator(S), !.deeper = deeper,
             !.snapshots = snaps, !.last_sequence = last,
             !.smallest_snapshot = IF snaps = {} THEN last
                                   ELSE OldestSnapshot(snaps),
             !.last_sequence_for_key = kMaxSequenceNumber]
  /\ UNCHANGED dbvars
  /\ UNCHANGED offCompaction

\* lines 989-1086: one iteration of the loop over the input (every key of
\* the model parses), or the end of the loop: at the end of the input the
\* outputs are installed (lines 1088-1115); on shutdown nothing is
DoCompactionWorkNext(sd) ==
  /\ cw.pc = "loop"
  /\ IF sd
       THEN cw' = [cw EXCEPT !.pc = "failed"]
       ELSE IF cw.next > Len(cw.input)
         THEN cw' = [cw EXCEPT !.pc = "installed"]
         ELSE LET ikey == cw.input[cw.next]
                  first == \/ ~cw.has_current_user_key
                           \/ ikey.user_key # cw.current_user_key
                  last == IF first THEN kMaxSequenceNumber
                          ELSE cw.last_sequence_for_key
                  drop == Drop(last, cw.smallest_snapshot, ikey,
                               IsBaseLevelForKey(cw.deeper, ikey.user_key))
              IN cw' = [cw EXCEPT
                          !.current_user_key = ikey.user_key,
                          !.has_current_user_key = TRUE,
                          !.last_sequence_for_key = ikey.sequence,
                          !.output = IF drop THEN @ ELSE Append(@, ikey),
                          !.dropped = IF drop THEN @ \cup {ikey} ELSE @,
                          !.next = @ + 1]
  /\ UNCHANGED dbvars
  /\ UNCHANGED offCompaction

\* ------------------------------------------------- NewInternalIterator
\* what the iterator thread leaves alone on the handle
iterframe == <<last_sequence, mem_, imm_, current, bg_error_, shutting_down_,
               bgQueue, bg, wvars, next_file_number_, rvars, crashed, deleted>>

\* lines 1151-1153 (mutex_.Lock() is commented out): mem = mem_.load()
NewInternalIteratorLoadMem ==
  /\ Running
  /\ ~deleted
  /\ it.pc = "none"
  /\ it' = [it EXCEPT !.pc = "load_imm", !.mem = mem_]
  /\ UNCHANGED <<tbl, iterframe>>
  /\ UNCHANGED offIterator

\* line 1154: imm = imm_.load()
NewInternalIteratorLoadImm ==
  /\ Running
  /\ it.pc = "load_imm"
  /\ it' = [it EXCEPT !.pc = "ref_mem", !.imm = imm_]
  /\ UNCHANGED <<tbl, iterframe>>
  /\ UNCHANGED offIterator

\* lines 1157-1158: mem->NewIterator(); mem->Ref()
NewInternalIteratorRefMem(crash) ==
  /\ Running
  /\ it.pc = "ref_mem"
  /\ IF tbl[it.mem].refs <= 0 /\ crash
       THEN /\ crashed' = "freed_memtable_1157"
            /\ UNCHANGED <<tbl, it>>
       ELSE /\ tbl' = [tbl EXCEPT ![it.mem] = Ref(@)]
            /\ it' = [it EXCEPT !.pc = "ref_imm",
                                !.freed = @ \/ tbl[it.mem].refs <= 0]
            /\ UNCHANGED crashed
  /\ UNCHANGED <<last_sequence, mem_, imm_, current, bg_error_, shutting_down_,
                 bgQueue, bg, wvars, next_file_number_, rvars, deleted>>
  /\ UNCHANGED offIterator

\* lines 1159-1162: if (imm != nullptr) { imm->NewIterator(); imm->Ref(); }
NewInternalIteratorRefImm(crash) ==
  /\ Running
  /\ it.pc = "ref_imm"
  /\ IF it.imm # Null /\ tbl[it.imm].refs <= 0 /\ crash
       THEN /\ crashed' = "freed_memtable_1160"
            /\ UNCHANGED <<tbl, it>>
       ELSE /\ tbl' = IF it.imm = Null THEN tbl
                      ELSE [tbl EXCEPT ![it.imm] = Ref(@)]
            /\ it' = [it EXCEPT !.pc = "ref_version",
                                !.freed = @ \/ (it.imm # Null
                                                  /\ tbl[it.imm].refs <= 0)]
            /\ UNCHANGED crashed
  /\ UNCHANGED <<last_sequence, mem_, imm_, current, bg_error_, shutting_down_,
                 bgQueue, bg, wvars, next_file_number_, rvars, deleted>>
  /\ UNCHANGED offIterator

\* lines 1163-1167: versions_->current()->AddIterators(...);
\* versions_->current()->Ref()
NewInternalIteratorRefVersion ==
  /\ Running
  /\ it.pc = "ref_version"
  /\ it' = [it EXCEPT !.pc = "state", !.version = Len(current)]
  /\ UNCHANGED <<tbl, iterframe>>
  /\ UNCHANGED offIterator

\* lines 1169-1174: new IterState(&mutex_, mem_, imm_, versions_->current())
\* reads the members mem_ and imm_ and current() again, not the locals;
\* RegisterCleanup; the iterator is returned
NewInternalIteratorState ==
  /\ Running
  /\ it.pc = "state"
  /\ it' = [it EXCEPT !.pc = "live", !.state_mem = mem_, !.state_imm = imm_,
                      !.state_version = Len(current)]
  /\ UNCHANGED <<tbl, iterframe>>
  /\ UNCHANGED offIterator

\* CleanupIteratorState, lines 1136-1144 (mutex_ held), when the iterator is
\* deleted: state->mem->Unref(); if (state->imm != nullptr)
\* state->imm->Unref(); state->version->Unref()
CleanupIteratorState(crash) ==
  /\ Running
  /\ it.pc = "live"
  /\ ~MutexHeldByGet
  /\ LET gone == \/ tbl[it.state_mem].refs <= 0
                 \/ (it.state_imm # Null /\ tbl[it.state_imm].refs <= 0)
         t1 == [tbl EXCEPT ![it.state_mem] = Unref(@)]
     IN IF gone /\ crash
          THEN /\ crashed' = "freed_memtable_1139"
               /\ UNCHANGED <<tbl, it>>
          ELSE /\ tbl' = IF it.state_imm = Null THEN t1
                         ELSE [t1 EXCEPT ![it.state_imm] = Unref(@)]
               /\ it' = [it EXCEPT !.pc = "cleaned", !.freed = @ \/ gone]
               /\ UNCHANGED crashed
  /\ UNCHANGED <<last_sequence, mem_, imm_, current, bg_error_, shutting_down_,
                 bgQueue, bg, wvars, next_file_number_, rvars, deleted>>
  /\ UNCHANGED offIterator

IteratorPath ==
  \/ NewInternalIteratorLoadMem
  \/ \E crash \in BOOLEAN : NewInternalIteratorRefMem(crash)
  \/ NewInternalIteratorLoadImm
  \/ \E crash \in BOOLEAN : NewInternalIteratorRefImm(crash)
  \/ NewInternalIteratorRefVersion
  \/ NewInternalIteratorState
  \/ \E crash \in BOOLEAN : CleanupIteratorState(crash)

\* a client thread that is inside Get
Reading == IF rpc = "idle" THEN 0 ELSE 1

\* a free client thread calls Get
ClientGet(k, snap) ==
  /\ Cardinality(InFlight) < PairThreads
  /\ GetBegin(k, snap)

\* PairThreads client threads put, read and take snapshots (PairWrites writes
\* in all, the last of which may be a deletion); the pool has PairBG threads
NextRead ==
  \/ \E k \in Keys :
       WriteReserve(k, "kTypeValue", PairThreads - Reading, PairWrites)
  \/ \E k \in Keys :
       /\ ncalls = PairWrites - 1
       /\ WriteReserve(k, "kTypeDeletion", PairThreads - Reading, PairWrites)
  \/ WritePath
  \/ FlushPathOf(1 .. PairBG)
  \/ \E k \in Keys, snap \in snapshots_ \cup {NoSnapshot} : ClientGet(k, snap)
  \/ GetLoadImm
  \/ GetLookup
  \/ GetReturn
  \/ GetSnapshot
  \/ \E snap \in snapshots_ : ReleaseSnapshot(snap)
  \/ Destructor

SpecRead == Init /\ [][NextRead]_vars

\* PairThreads client threads put values (PairWrites writes in all), one more
\* thread reads the latest value, the pool has PairBG threads
NextNewest ==
  \/ \E k \in Keys : WriteReserve(k, "kTypeValue", PairThreads, PairWrites)
  \/ WritePath
  \/ FlushPathOf(1 .. PairBG)
  \/ \E k \in Keys : GetBegin(k, NoSnapshot)
  \/ GetLoadImm
  \/ GetLookup
  \/ GetReturn

SpecNewest == Init /\ [][NextNewest]_vars

\* PairThreads client threads put values; no reads
NextLive ==
  \/ \E k \in Keys : WriteReserve(k, "kTypeValue", PairThreads, PairWrites)
  \/ WritePath
  \/ FlushPathOf(1 .. PairBG)
  \/ Destructor

\* every thread that can take a step is scheduled in the end: the writer
\* threads and the pool threads are operating-system threads. Nothing
\* obliges a client to call Write again or a wait to wake up unsignalled.
SpecLive ==
  /\ Init
  /\ [][NextLive]_vars
  /\ WF_vars(WriterSteps)
  /\ WF_vars(FlushPathOf(1 .. PairBG))

\* PairThreads client threads put values while no pool thread gets to run
NextWriters ==
  \/ \E k \in Keys : WriteReserve(k, "kTypeValue", PairThreads, PairWrites)
  \/ WritePath

SpecWriters == Init /\ [][NextWriters]_vars

\* a directory with or without a database, and no handle
InitOpen ==
  /\ InitHandle
  /\ \E e \in BOOLEAN :
       dbopen = [Opened EXCEPT !.pc = "closed", !.current_file = e,
                               !.existed = e, !.db_lock_ = FALSE,
                               !.dbptr = "nullptr", !.nopen = 0]
  /\ rlf = NoLogFile
  /\ opts = NoOptions
  /\ meta = NoMetaData

\* the client opens and closes the database MaxOpens times
NextOpen ==
  \/ \E cim, eie \in BOOLEAN : OpenBegin(cim, eie)
  \/ \E st \in StatusOfEnv : RecoverLockFile(st)
  \/ \E st \in StatusOfEnv : RecoverExists(st)
  \/ \E st \in StatusOfEnv \cup {"Corruption"}, m, sm \in BOOLEAN :
       RecoverLogs(st, m, sm)
  \/ \E st \in StatusOfEnv : OpenNewLog(st)
  \/ \E st \in StatusOfEnv : OpenLogAndApply(st)
  \/ OpenReturn
  \/ CloseHandle

SpecOpen == InitOpen /\ [][NextOpen]_vars

\* PairThreads client threads put values, the pool flushes, and one more
\* client thread calls CompactRange
NextCompactRange ==
  \/ \E k \in Keys : WriteReserve(k, "kTypeValue", PairThreads, PairWrites)
  \/ WritePath
  \/ FlushPathOf(1 .. PairBG)
  \/ CompactRangeLevels
  \/ CompactRangeFlush

SpecCompactRange == Init /\ [][NextCompactRange]_vars

\* DoCompactionWork on input files of at most MaxInputSeq entries, with at
\* most MaxSnapshots + 1 registered snapshots
NextCompaction ==
  \/ /\ cw.pc = "none"
     /\ \E S \in InputFiles, deeper \in DeeperLevels,
           last \in MaxInputSeq .. MaxInputSeq + 1,
           snaps \in SnapshotLists :
          DoCompactionWorkBegin(S, deeper, snaps, last)
  \/ \E sd \in BOOLEAN : DoCompactionWorkNext(sd)

SpecCompaction == Init /\ [][NextCompaction]_vars

\* the pool threads run WriteLevel0Table side by side, as two flush tasks do
\* (BackgroundCall does not take mutex_, lines 755-770)
NextLevel0 ==
  \/ \E t \in 1 .. NumBG : WriteLevel0TableNewFileNumber(t)
  \/ \E t \in 1 .. NumBG : WriteLevel0TableInsert(t)
  \/ \E t \in 1 .. NumBG, ok \in BOOLEAN, file_size \in 0 .. 1 :
       WriteLevel0TableBuildTable(t, ok, file_size)
  \/ \E t \in 1 .. NumBG : WriteLevel0TableErase(t)
  \/ \E t \in 1 .. NumBG : WriteLevel0TableAddFile(t)

SpecLevel0 == Init /\ [][NextLevel0]_vars

\* a Block of either version of block.cc on every small contents, and its
\* iterator
NextBlock ==
  \/ /\ blk.pc = "none"
     /\ \E source \in BlockSources, ndebug \in BOOLEAN, contents \in BlockContents,
           type \in {"DataBlock", "Block_On_Memory_Side"} :
          BlockBlock(source, ndebug, contents, type)
  \/ BlockNewIteratorChecked
  \/ BlockNewIterator

SpecBlock == Init /\ [][NextBlock]_vars

\* one VersionEdit and MaxEdits calls on it
NextVersionEdit ==
  \/ \E ndebug \in BOOLEAN, sizes \in [MetaDataPtrs -> 0 .. 1] :
       VersionEditClear(ndebug, sizes)
  \/ \E level \in EditLevels, t \in MetaDataPtrs : VersionEditAddFile(level, t)
  \/ \E level \in EditLevels, t \in MetaDataPtrs :
       VersionEditAddFileIfNotExist(level, t)
  \/ \E level \in EditLevels, file \in 1 .. MaxFileNumber, node_id \in 0 .. MaxNodeId :
       VersionEditRemoveFile(level, file, node_id)

SpecVersionEdit == Init /\ [][NextVersionEdit]_vars

\* Open on every small directory and MANIFEST
NextRecoverFiles ==
  \/ /\ rec.pc = "none"
     /\ \E st \in StatusOfEnv, live \in SUBSET (1 .. MaxFileNumber),
           min_log, prev_log \in 0 .. MaxFileNumber, seq \in 0 .. MaxLogSeq :
          \E dir \in DirectoriesOf(live) :
            RecoverVersions(st, live, min_log, prev_log, seq, dir)
  \/ \E st \in StatusOfEnv : RecoverExpected(st)
  \/ \E st \in StatusOfEnv \cup {"Corruption"}, seq \in 0 .. MaxLogSeq :
       RecoverReplay(st, seq)
  \/ RecoverLastSequence
  \/ \E st \in StatusOfEnv : RecoverOpenReturn(st)

SpecRecoverFiles == Init /\ [][NextRecoverFiles]_vars

\* RemoveObsoleteFiles on every small directory and VersionSet
NextObsolete ==
  \/ /\ rof.pc = "none"
     /\ \E err \in {"OK", "IOError"}, pending, versionfiles \in SUBSET (1 .. MaxFileNumber),
           lognum, prevlog \in 0 .. MaxFileNumber, manifest \in 1 .. MaxFileNumber,
           dir \in Directories :
          RemoveObsoleteFilesBegin(err, pending, versionfiles, lognum, prevlog, manifest, dir)
  \/ RemoveObsoleteFilesRemoveFile
  \/ RemoveObsoleteFilesReturn

SpecObsolete == Init /\ [][NextObsolete]_vars

\* one client thread calls TEST_CompactRange on a database at rest (no
\* writes, imm_ is null); the pool has NumBG threads
NextManual ==
  \/ \E level \in 0 .. kNumLevels - 2, begin, end \in {Null, 0} :
       TEST_CompactRangeBegin(level, begin, end)
  \/ TEST_CompactRangeLoop
  \/ TEST_CompactRangeWake
  \/ \E i \in Workers : BGWork(i)
  \/ \E i \in Workers : BackgroundCall(i)
  \/ \E i \in Workers : BackgroundCallReschedule(i)

\* every pool thread that has something to do is scheduled in the end
SpecManual ==
  /\ Init
  /\ [][NextManual]_vars
  /\ WF_vars(\E i \in Workers : BGWork(i))
  /\ WF_vars(\E i \in Workers : BackgroundCall(i))
  /\ WF_vars(\E i \in Workers : BackgroundCallReschedule(i))

\* PairThreads client threads put values and the PairBG threads of the pool
\* flush
NextFlush ==
  \/ \E k \in Keys : WriteReserve(k, "kTypeValue", PairThreads, PairWrites)
  \/ WritePath
  \/ FlushPathOf(1 .. PairBG)

SpecFlush == Init /\ [][NextFlush]_vars

\* the same, with every thread that can take a step scheduled in the end:
\* each writer thread and the pool thread are operating-system threads
SpecFlushFair ==
  /\ Init
  /\ [][NextFlush]_vars
  /\ \A s \in Calls : WF_vars(WriterStepsOf(s))
  /\ WF_vars(FlushPathOf(1 .. PairBG))

\* PairThreads client threads put values, the pool flushes, and one more
\* client thread creates an iterator and deletes it
NextIterator ==
  \/ \E k \in Keys : WriteReserve(k, "kTypeValue", PairThreads, PairWrites)
  \/ WritePath
  \/ FlushPathOf(1 .. PairBG)
  \/ IteratorPath

SpecIterator == Init /\ [][NextIterator]_vars

\* RecoverLogFile is called on a log file of at most MaxRecords records
InitRecoverLog ==
  /\ InitHandle
  /\ dbopen = Opened
  /\ \E pc \in BOOLEAN, l \in LogsUpTo(MaxRecords) :
       rlf = [NoLogFile EXCEPT !.pc = "open", !.paranoid_checks = pc, !.log = l]
  /\ opts = NoOptions
  /\ meta = NoMetaData

NextRecoverLog ==
  \/ \E st \in {StatusOK, IOError} : RecoverLogFileOpen(st)
  \/ \E full \in BOOLEAN, st \in {StatusOK, IOError} : RecoverLogFileRead(full, st)
  \/ \E reuse \in BOOLEAN, st \in {StatusOK, IOError} : RecoverLogFileTail(reuse, st)

SpecRecoverLog == InitRecoverLog /\ [][NextRecoverLog]_vars

\* Open recovers a database whose MANIFEST holds a last_sequence of at most
\* MaxLogSeq and whose log holds at most MaxRecords - 1 records; once it has
\* returned, PairThreads client threads put values
InitRecover ==
  /\ last_sequence \in 0 .. MaxLogSeq
  /\ InitMemTables
  /\ dbopen = Opened
  /\ opts = NoOptions
  /\ meta = NoMetaData
  /\ \E pc \in BOOLEAN, l \in LogsUpTo(MaxRecords - 1) :
       rlf = [NoLogFile EXCEPT !.pc = "open", !.paranoid_checks = pc, !.log = l]

NextRecover ==
  \/ NextRecoverLog
  \/ RecoverSetLastSequence
  \/ /\ rlf.pc = "recovered"
     /\ \E k \in Keys :
          WriteReserve(k, "kTypeValue", PairThreads, PairWrites - MaxLogSeq)
  \/ WritePath

SpecRecover == InitRecover /\ [][NextRecover]_vars

\* SanitizeOptions on the caller's Options
InitSanitize ==
  /\ InitHandle
  /\ dbopen = Opened
  /\ rlf = NoLogFile
  /\ \E o \in UserOptions :
       opts = [pc |-> "src", src |-> o, result |-> o, again |-> o]
  /\ meta = NoMetaData

NextSanitize ==
  \/ Sanitize
  \/ SanitizeAgain

SpecSanitize == InitSanitize /\ [][NextSanitize]_vars

\* a RemoteMemTableMetaData on a compute node (this_machine_type 0) or a
\* memory node (1), created by node 0 or 1, is destroyed
InitMetaData ==
  /\ InitHandle
  /\ dbopen = Opened
  /\ rlf = NoLogFile
  /\ opts = NoOptions
  /\ \E t, c, n \in {0, 1}, d, f \in 0 .. MaxChunks, x \in 1 .. MaxChunks :
       meta = [NoMetaData EXCEPT !.this_machine_type = t, !.creator_node_id = c,
                                 !.node_id = n, !.remote_data_mrs = d,
                                 !.remote_filter_mrs = f,
                                 !.remote_dataindex_mrs = x]

NextMetaData ==
  \E due, found, ndebug \in BOOLEAN : DestroyMetaData(due, found, ndebug)

SpecMetaData == InitMetaData /\ [][NextMetaData]_vars

\* =================================================================== claims
\* every sequence number of the window of table t has an entry in `entries`
HoldsWindow(entries, t) ==
  \A q \in GetFirstseq(t) .. Getlargest_seq_supposed(t) :
    \E c \in entries : wseq[c] = q

\* the tables that were rotated out of mem_ and that no flush has released
Retired == {t \in Tables : tbl[t].created /\ t # mem_ /\ tbl[t].refs > 0}

\* C1: the MemTable that PickupTableToWrite returns, and into which Write
\* inserts the batch, is the one whose window [first_seq, largest_seq] contains
\* the writer's reserved sequence, so the window assertion of Write (line 1387)
\* never fails.
C1_WriterGetsItsWindow ==
  /\ crashed # "assert_window_1387"
  /\ \A c \in Calls :
       wpc[c] \in {"insert", "inc", "done"} => InWindow(wseq[c], wmem[c])

\* C2: once Write(k, v) with sequence s has returned, every later Get(k) with
\* snapshot >= s returns v, or the value of a later write to k: the entry is
\* reachable through mem, imm or the current Version at every instant.
C2_ReturnedWriteIsRead ==
  (rpc = "done" /\ rd.returned # Null)
    => (rd.found # Null /\ wseq[rd.found] >= wseq[rd.returned])

\* C3: at most one MemTable is retired but not yet flushed; the rotation
\* winner finds imm_ null when it stores the retired table (the assertion of
\* line 1530 never fails).
C3_AtMostOneImmutable ==
  /\ crashed # "assert_imm_null_1530"
  /\ \A c \in Calls : wpc[c] = "store_imm" => imm_ = Null
  /\ Cardinality(Retired) <= 1

C5_AppliedWithinWindow ==
  \A t \in Tables : tbl[t].kv_num <= MEMTABLE_SEQ_SIZE

C8_WritesSurfaceBackgroundError ==
  \A c \in Calls : (wpc[c] = "done" /\ wbg[c] # "OK") => wret[c] = wbg[c]

\* C9: a write that reserves its sequence after a snapshot was taken is never
\* visible to a Get through that snapshot.
C9_SnapshotHidesLaterWrites ==
  (rpc = "done" /\ rd.given /\ rd.found # Null) => rd.found < rd.taken

\* C10: Get(k) returns the entry of k with the greatest sequence <= the read
\* snapshot among mem, imm and the current Version, and NotFound when that
\* entry is a deletion.
C10_NewestSequenceWins ==
  rpc = "done" =>
    /\ rd.found = rd.best
    /\ rd.s = IF rd.best = Null \/ wkind[rd.best] = "kTypeDeletion"
                THEN "NotFound" ELSE "OK"

\* C7: no lost wake-up: a writer that waits on memtable_full_cv while imm_ is
\* null (the flush it waited for has completed) is woken in the end.
C7_BlockedWriterWakes ==
  \A c \in Calls :
    (wpc[c] = "waiting" /\ imm_ = Null /\ crashed = "no")
      ~> (wpc[c] # "waiting" \/ crashed # "no")

\* the place of a flush state in Open -> FlushRequested -> FlushScheduled
FlushRank(st) ==
  IF st = "FLUSH_NOT_REQUESTED" THEN 0
  ELSE IF st = "FLUSH_REQUESTED" THEN 1
  ELSE 2

\* C11: the flush state of a MemTable only moves forward: no step sets it back
\* to an earlier state; a rotation attempt on a stale mem_r never resets a
\* FLUSH_SCHEDULED table to FLUSH_REQUESTED.
C11_FlushStateForward ==
  [][\A t \in Tables :
       FlushRank(tbl'[t].flush_state) >= FlushRank(tbl[t].flush_state)]_vars

\* worker i is inside CompactMemTable with the table it loaded at line 597
InCompactMemTable(i) ==
  bg[i].pc \in {"cm_wait", "cm_sched", "cm_build", "cm_apply", "cm_commit"}

\* C12: each immutable MemTable is flushed by at most one worker: the two
\* assertions at the start of CompactMemTable hold, no two workers flush the
\* same table, a table is serialized into at most one file of the Version and
\* is unref'd at most once.
C12_FlushedByOneWorker ==
  /\ crashed \notin {"assert_imm_nonnull_598", "assert_not_scheduled_599"}
  /\ \A i, j \in Workers :
       (i # j /\ InCompactMemTable(i) /\ InCompactMemTable(j))
         => bg[i].imm # bg[j].imm
  /\ \A a, b \in 1 .. Len(current) :
       a # b => current[a].from # current[b].from
  /\ \A t \in Tables : tbl[t].refs >= 0

\* C13: when a flush fails, the error is latched and the flush state machine
\* is not advanced: imm_ still points to the same table, the table is not
\* unref'd, its flush state is the one it had before the attempt, and the
\* file of the attempt is in no published Version.
C13_FailedFlushChangesNothing ==
  \A i \in Workers :
    (bg[i].pc = "resched" /\ bg[i].st # "OK") =>
      /\ bg_error_ # "OK"
      /\ imm_ = bg[i].imm
      /\ tbl[bg[i].imm].refs >= 1
      /\ tbl[bg[i].imm].flush_state = bg[i].before
      /\ \A j \in 1 .. Len(current) :
           bg[i].file = NoFile \/ current[j].number # bg[i].file.number

C15_FallbackFindsImm ==
  /\ crashed # "imm_null_1553"
  /\ \A c \in Calls :
       wpc[c] = "search_imm" => (imm_ # Null /\ InWindow(wseq[c], imm_))

\* the writers that have won the CAS replacing table t and have not yet
\* returned from the rotation
RotationWinners(t) ==
  {c \in Calls : wpc[c] \in {"store_imm", "schedule"} /\ wmem[c] = t}

C17_NoRotationAfterError ==
  [][bg_error_ # "OK" => mem_' = mem_]_vars

\* C18: on shutdown the destructor waits for every running background flush
\* task before it releases mem_ / imm_ and deletes versions_: once it has
\* released them no pool thread is inside a background task, and no pool
\* thread faults on the released objects
C18_DestructorWaitsForFlush ==
  /\ crashed # "use_after_delete"
  /\ deleted => \A i \in Workers : bg[i].pc = "idle"

\* C19: the flush path honours shutting_down_.  A flush whose table build
\* has succeeded and which makes the test of line 620 after shutdown was
\* requested does not call LogAndApply and does not clear imm_: its status
\* becomes IOError("Deleting DB during memtable compaction"), which
\* RecordBackgroundError latches (into bg_error_ if no error is latched yet)
\* before the task ends.  A background task that starts after shutdown was
\* requested performs no flush.
C19_ShutdownStopsFlush ==
  [][\A i \in Workers :
       /\ (shutting_down_ /\ bg[i].pc = "cm_apply" /\ bg'[i].pc # "cm_apply") =>
            /\ bg'[i].pc = "cm_error"
            /\ bg'[i].st = DeletingDB
            /\ current' = current
            /\ imm_' = imm_
       /\ (bg[i].pc \in {"cm_error", "cm_latch"} /\ bg'[i].pc # bg[i].pc) =>
            /\ bg'[i].pc \in {"cm_latch", "resched"}
            /\ current' = current
            /\ imm_' = imm_
            /\ bg'[i].pc = "resched" => bg_error_' # "OK"
       /\ (shutting_down_ /\ bg[i].pc = "call" /\ bg'[i].pc # "call") =>
            /\ bg'[i].pc = "resched"
            /\ current' = current
            /\ imm_' = imm_
            /\ tbl' = tbl]_vars

\* the promises of Open about a missing and an existing database, for the
\* calls that have returned and for which `reached` holds
OpenContract(reached) ==
  dbopen.pc = "returned" =>
    /\ (reached /\ ~dbopen.existed /\ ~dbopen.create_if_missing) =>
         (dbopen.s = "InvalidArgument" /\ dbopen.dbptr = "nullptr")
    /\ (reached /\ dbopen.existed /\ dbopen.error_if_exists) =>
         (dbopen.s = "InvalidArgument" /\ dbopen.dbptr = "nullptr")
    /\ (reached /\ ~dbopen.existed /\ dbopen.create_if_missing) =>
         /\ dbopen.newdb # "none"
         /\ dbopen.newdb = "OK" => (dbopen.current_file /\ dbopen.recovered)
         /\ dbopen.newdb # "OK" => (~dbopen.current_file /\ ~dbopen.recovered)
    /\ dbopen.s # "OK" => dbopen.dbptr = "nullptr"
    /\ dbopen.s = "OK" => (dbopen.dbptr = "impl" /\ dbopen.mem)

\* C20 as stated: Open returns InvalidArgument and no handle when the database
\* does not exist and create_if_missing is false, and when it exists and
\* error_if_exists is true; when it is missing and create_if_missing is true
\* the database is created and Open proceeds; on every failing Open the
\* returned handle is null.
C20_OpenAsStated == OpenContract(TRUE)

\* C20: once Recover holds the lock file of the directory, Open returns
\* InvalidArgument and no handle when the database does not exist and
\* create_if_missing is false, and when it exists and error_if_exists is
\* true; when it is missing and create_if_missing is true NewDB is called
\* and, when NewDB succeeds, the database exists and Open proceeds to the
\* recovery; a call whose LockFile fails returns the status of LockFile; on
\* every failing Open the returned handle is null.
C20_OpenInvalidArgument ==
  /\ OpenContract(dbopen.locked)
  /\ (dbopen.pc = "returned" /\ ~dbopen.locked) =>
       (dbopen.s = "IOError" /\ dbopen.dbptr = "nullptr" /\ dbopen.newdb = "none")

\* a second Open holds the lock file, finds a database in the directory and
\* refuses it because of error_if_exists
C20_Witness ==
  /\ dbopen.pc = "returned"
  /\ dbopen.nopen = 2
  /\ dbopen.locked /\ dbopen.existed /\ dbopen.error_if_exists
  /\ dbopen.s = "InvalidArgument"

\* C21: log recovery with paranoid_checks latches the first corruption that
\* is reported (a later report does not replace it) and stops with it: no
\* batch behind the first report is replayed and the call returns that
\* status.  Without paranoid_checks a report never changes the status, and
\* the batches behind it are replayed: the call returns OK with every batch
\* of the log replayed unless writing a table fails.
C21_ParanoidLatchesFirstCorruption ==
  /\ (rlf.paranoid_checks /\ rlf.reports # << >>) =>
       /\ rlf.status = CorruptionAt(Head(rlf.reports))
       /\ \A p \in rlf.inserted : p < Head(rlf.reports)
       /\ rlf.pc \in {"read", "tail", "returned"}
       /\ rlf.pc = "read" => rlf.log[rlf.next - 1].kind = "small"
  /\ ~rlf.paranoid_checks =>
       /\ rlf.status.code \in {"OK", "IOError"}
       /\ rlf.status.code = "IOError" => rlf.save_manifest
       /\ (rlf.pc = "returned" /\ rlf.status.code = "OK" /\ rlf.next > 1) =>
            rlf.inserted = {p \in 1 .. Len(rlf.log) : rlf.log[p].kind = "batch"}

\* a paranoid recovery has replayed a batch, got two reports and returned
\* the first; and a recovery without paranoid_checks has replayed a batch
\* behind a report
C21_Witness ==
  /\ rlf.pc = "returned"
  /\ rlf.inserted # {}
  /\ \/ /\ rlf.paranoid_checks
        /\ Len(rlf.reports) >= 2
        /\ rlf.status = CorruptionAt(rlf.reports[1])
     \/ /\ ~rlf.paranoid_checks
        /\ rlf.reports # << >>
        /\ \E p \in rlf.inserted : p > rlf.reports[1]

\* the value of a size_t, in units that keep it apart from every bound:
\* x lies in [minvalue, maxvalue] (both below 2^31)
InRange(x, minvalue, maxvalue) ==
  /\ x.w <= 1
  /\ x.w * TwoTo30 + x.r >= minvalue
  /\ x.w * TwoTo30 + x.r <= maxvalue
Below(x, minvalue) == x.w = 0 /\ x.r < minvalue
Above(x, maxvalue) == ~(x.w <= 1 /\ x.w * TwoTo30 + x.r <= maxvalue)

\* what C22 says of one size_t option
Clipped(x, y, minvalue, maxvalue) ==
  /\ InRange(y, minvalue, maxvalue)
  /\ InRange(x, minvalue, maxvalue) => y = x
  /\ Below(x, minvalue) => y = FromInt(minvalue)
  /\ Above(x, maxvalue) => y = FromInt(maxvalue)

\* C22: after sanitization write_buffer_size lies in [64KiB, 1GiB],
\* max_file_size in [1MiB, 1GiB], block_size in [1KiB, 4MiB] and
\* max_open_files in [74, 50000]; a value inside its range is unchanged, one
\* below is raised to the minimum, one above is lowered to the maximum;
\* sanitizing twice equals sanitizing once.
C22_OptionsClipped ==
  opts.pc \in {"sanitized", "done"} =>
    /\ Clipped(opts.src.write_buffer_size, opts.result.write_buffer_size,
               65536, TwoTo30)
    /\ Clipped(opts.src.max_file_size, opts.result.max_file_size,
               1048576, TwoTo30)
    /\ Clipped(opts.src.block_size, opts.result.block_size, 1024, 4194304)
    /\ opts.result.max_open_files =
         ClipToRangeInt(opts.src.max_open_files, 74, 50000)
    /\ opts.result.max_open_files \in 74 .. 50000
    /\ opts.pc = "done" => opts.again = opts.result

\* C23: CompactRange forces the current MemTable to be flushed, waits until
\* imm_ is cleared, runs the manual compactions and returns: a call that has
\* started gets through its flush without ending the process
C23_CompactRangeTerminates == crashed # "null_batch_1357"

\* C24: an SSTable metadata object that is dropped on the node that created
\* it releases its remote-memory slots through the batched deallocation RPC;
\* one that is dropped on another node frees local bookkeeping only and
\* issues no remote deallocation.
C24_CreatorReleasesRemoteSlots ==
  (meta.pc = "destroyed" /\ meta.failed = "no") =>
    LET chunk_num == meta.remote_data_mrs + meta.remote_dataindex_mrs
                       + meta.remote_filter_mrs
    IN IF meta.creator_node_id = meta.node_id
         THEN meta.batched = chunk_num
         ELSE meta.batched = 0 /\ meta.slot_calls = 0 /\ meta.rpcs = 0

\* C25: no write is ever assigned sequence number 0: the first sequence the
\* allocator hands out is at least 1
C25_NoWriteGetsSequenceZero ==
  \A c \in Calls : wpc[c] # "none" => wseq[c] >= 1

\* C26: last_sequence never decreases.  Recovery raises it to the largest
\* sequence of the log (max_sequence, which itself only grows while the log
\* is read) only when that exceeds the recovered value, and every write
\* reservation advances it; a Version that is published takes the value of
\* the counter, so successive Versions carry non-decreasing values.
C26_LastSequenceMonotonic ==
  [][/\ last_sequence' >= last_sequence
     /\ rlf'.max_sequence >= rlf.max_sequence
     /\ (rlf.pc = "returned" /\ rlf'.pc = "recovered") =>
          /\ last_sequence' >= rlf.max_sequence
          /\ last_sequence' \in {last_sequence, rlf.max_sequence}
     /\ (ncalls' = ncalls + 1) =>
          (last_sequence' = last_sequence + 1 /\ wseq'[ncalls] = last_sequence)]_vars

\* the recovery has raised last_sequence to the largest sequence of the log,
\* and a write after it has advanced it further
C26_Witness ==
  /\ rlf.pc = "recovered"
  /\ rlf.max_sequence = MaxLogSeq
  /\ ncalls >= 1
  /\ wseq[0] = MaxLogSeq
  /\ last_sequence > MaxLogSeq

\* C27: a reader releases exactly the references it acquired: the IterState
\* of an iterator names the MemTables and the Version that
\* NewInternalIterator ref'd, a MemTable the iterator holds a pointer to has
\* not been destroyed, no Ref() or Unref() is made on a destroyed MemTable, and no
\* reference count goes below zero.
C27_ReadersReleaseWhatTheyAcquired ==
  /\ it.pc \in {"live", "cleaned"} =>
       /\ it.state_mem = it.mem
       /\ it.state_imm = it.imm
       /\ it.state_version = it.version
  /\ it.pc \in {"ref_imm", "ref_version", "state", "live"} =>
       tbl[it.mem].refs >= 1
  /\ ~it.freed
  /\ crashed \notin {"freed_memtable_1157", "freed_memtable_1160",
                     "freed_memtable_1139"}
  /\ \A t \in Tables : tbl[t].refs >= 0

\* C28: a successful flush performs its steps in this order: the table is
\* marked FLUSH_SCHEDULED only when able_to_flush is true; when imm_ is set to
\* null the file made by this flush is in the current Version and imm_ is the
\* table this flush loaded, serialized and marked; that table is unref'd
\* once, by this step (one flush per table: it is marked once and its count
\* does not go below zero); the broadcast follows when the table is no longer
\* imm_.
C28_FlushStepOrder ==
  [][\A i \in Workers :
       /\ (bg[i].pc = "cm_sched" /\ bg'[i].pc = "cm_build") =>
            /\ tbl[bg[i].imm].able_to_flush
            /\ tbl[bg[i].imm].flush_state # "FLUSH_SCHEDULED"
       /\ (bg[i].pc = "cm_commit" /\ bg'[i].pc # "cm_commit") =>
            /\ crashed' = "no"
            /\ imm_ = bg[i].imm
            /\ imm_' = Null
            /\ tbl'[bg[i].imm].refs = tbl[bg[i].imm].refs - 1
            /\ tbl'[bg[i].imm].refs >= 0
            /\ bg[i].file.from \in {Null, bg[i].imm}
            /\ bg[i].file # NoFile =>
                 \E j \in 1 .. Len(current) : current[j] = bg[i].file
            /\ tbl[bg[i].imm].table # {} => bg[i].file # NoFile
       /\ (bg[i].pc = "cm_signal" /\ bg'[i].pc = "resched") =>
            imm_ # bg[i].imm
    ]_vars

\* a BGWork item is queued, or a pool thread is in a BackgroundCall that has
\* yet to load imm_ or that is flushing the table imm_ points to
TaskForPendingImm ==
  \/ bgQueue > 0
  \/ \E i \in Workers :
       \/ bg[i].pc \in {"call", "cm_load"}
       \/ /\ bg[i].pc \in {"cm_wait", "cm_sched", "cm_build", "cm_apply",
                             "cm_commit", "cm_error", "cm_latch"}
          /\ bg[i].imm = imm_

\* C29: MaybeScheduleCompaction enqueues a background task only when shutdown
\* has not been requested, no background error is latched and there is
\* something to do (imm_ is not null; there is no manual and no needed
\* compaction), and it is idempotent: it enqueues nothing while a task for
\* the pending immutable table is queued or running.
C29_ScheduleOnlyWhenNeededAndOnce ==
  [][bgQueue' > bgQueue =>
       /\ ~shutting_down_
       /\ bg_error_ = "OK"
       /\ imm_ # Null
       /\ ~TaskForPendingImm
    ]_vars

\* the sequence of Write call s exceeds the window of the mutable table while
\* an immutable table is pending
MustWait(s) == imm_ # Null /\ wseq[s] > Getlargest_seq_supposed(mem_)

\* C30: a writer decides to wait (line 1492) and starts to wait on
\* Memtable_full_cv (line 1503) only when imm_ is not null and its sequence
\* exceeds the window of the mutable table, so a writer whose sequence lies
\* within or below that window never waits; and a writer that searches below
\* the mutable window finds its table in imm_ at once (it neither spins in
\* the loop of lines 1546-1559 nor dereferences a null imm_), so it leaves
\* PickupTableToWrite in a bounded number of its own steps.
C30_WriterInWindowNeverWaits ==
  [][\A s \in Calls :
       /\ (wpc[s] = "check_imm" /\ wpc'[s] = "wait") => MustWait(s)
       /\ (wpc[s] = "wait" /\ wpc'[s] = "waiting") => MustWait(s)
       /\ wpc'[s] = "search_imm" => (imm_' # Null /\ InWindow(wseq[s], imm_)')
       /\ crashed' # "imm_null_1553"
    ]_vars

\* C31: under fair scheduling the flush worker's wait for able_to_flush
\* (lines 606-614) ends: the writers that hold the sequences of the table's
\* window insert them and the worker goes on to mark the table.
C31_FlushWaitEnds ==
  \A i \in Workers : (bg[i].pc = "cm_wait") ~> (bg[i].pc = "cm_sched")

\* C32: bg_error_ is write-once: RecordBackgroundError stores the status and
\* broadcasts only if bg_error_ is OK at that moment, and once bg_error_ is
\* not OK no step resets it or replaces it with a later error.
C32_BgErrorWriteOnce ==
  [][/\ bg_error_ # "OK" => bg_error_' = bg_error_
     /\ \A i \in Workers :
          (bg[i].pc = "cm_latch" /\ bg'[i].pc = "resched") => bg_error_ = "OK"
    ]_vars

\* the entry a read of user key k at sequence s sees among the entries E
\* (the newest with sequence <= s), as the value it returns
VisibleAt(E, k, s) ==
  LET hits == {e \in E : e.user_key = k /\ e.sequence <= s}
  IN IF hits = {} THEN "NotFound"
     ELSE LET e == CHOOSE x \in hits : \A y \in hits : y.sequence <= x.sequence
          IN IF e.type = "kTypeDeletion" THEN "NotFound" ELSE e
Range(f) == {f[j] : j \in 1 .. Len(f)}

\* C33: DoCompactionWork drops an entry only if a newer entry of its user
\* key with sequence <= smallest_snapshot precedes it in the input, or if it
\* is a deletion with sequence <= smallest_snapshot at the base level of its
\* key; smallest_snapshot is the oldest registered snapshot, or
\* LastSequence() when there is none; and for every registered snapshot
\* (and for a read at LastSequence()) every user key has the same visible
\* value before and after the compaction.
C33_CompactionRespectsSnapshots ==
  cw.pc \in {"loop", "installed"} =>
    /\ cw.smallest_snapshot = IF cw.snapshots = {} THEN cw.last_sequence
                               ELSE OldestSnapshot(cw.snapshots)
    /\ \A e \in cw.dropped :
         \/ \E f \in Range(cw.input) :
              /\ f.user_key = e.user_key
              /\ f.sequence > e.sequence
              /\ f.sequence <= cw.smallest_snapshot
         \/ /\ e.type = "kTypeDeletion"
            /\ e.sequence <= cw.smallest_snapshot
            /\ IsBaseLevelForKey(cw.deeper, e.user_key)
    /\ cw.pc = "installed" =>
         /\ Range(cw.output) \cup cw.dropped = Range(cw.input)
         /\ \A s \in cw.snapshots \cup {cw.last_sequence}, k \in UserKeys :
              VisibleAt(Range(cw.output) \cup cw.deeper, k, s)
                = VisibleAt(Range(cw.input) \cup cw.deeper, k, s)

\* a compaction with a registered snapshot has dropped a hidden value and a
\* deletion and has kept an entry
C33_Witness ==
  /\ cw.pc = "installed"
  /\ cw.snapshots # {}
  /\ \E e \in cw.dropped : e.type = "kTypeDeletion"
  /\ \E e \in cw.dropped : e.type = "kTypeValue"
  /\ cw.output # << >>

\* C34: within one run of CompactMemTable imm_ does not change between the
\* load of line 597 and the store of null at line 637: the table that was
\* awaited and marked FLUSH_SCHEDULED is the table every later read of imm_
\* finds, the one WriteLevel0Table serializes and the one the commit unrefs.
C34_FlushSeesOneImm ==
  \A i \in Workers :
    InCompactMemTable(i) =>
      /\ imm_ = bg[i].imm
      /\ bg[i].file.from \in {Null, bg[i].imm}

\* C35: background work quiesces: with no immutable MemTable pending and no
\* rotation, from some moment on no BGWork item is queued and every pool
\* thread is idle, also while a manual compaction is registered.
C35_BackgroundWorkQuiesces ==
  <>[](bgQueue = 0 /\ \A i \in Workers : bg[i].pc = "idle")

\* C36: RemoveObsoleteFiles removes no table or temp file whose number is in
\* pending_outputs_ or in a live Version, no log file numbered >= LogNumber
\* or equal to PrevLogNumber, and never CURRENT, the lock file or the info
\* log; after a background error it removes nothing.
C36_RemoveObsoleteFilesKeepsLiveFiles ==
  /\ \A f \in rof.removed :
       /\ f.type \in {"kTableFile", "kTempFile"} => f.number \notin rof.live
       /\ f.type = "kLogFile" =>
            f.number < rof.LogNumber /\ f.number # rof.PrevLogNumber
       /\ f.type \notin {"kCurrentFile", "kDBLockFile", "kInfoLogFile"}
  /\ rof.bg_error_ # "OK" => rof.removed = {} /\ rof.files_to_delete = {}

\* a finished call that removed a log file and a table and kept a log file
\* and a table next to them
C36_Witness ==
  /\ rof.pc = "returned"
  /\ \E f \in rof.removed : f.type = "kLogFile"
  /\ \E f \in rof.removed : f.type \in {"kTableFile", "kTempFile"}
  /\ \E f \in rof.filenames : f.type = "kLogFile" /\ f.number = rof.LogNumber

\* C37: when WriteLevel0Table returns, the edit holds exactly one more file
\* if the build succeeded with file_size > 0 and is unchanged otherwise, and
\* in both cases the number the call allocated is no longer in
\* pending_outputs_.
C37_Level0TableFrame ==
  \A t \in 1 .. NumBG :
    wl.pc[t] = "returned" =>
      /\ wl.edit[t] = IF wl.s[t] = "OK" /\ wl.meta[t].file_size > 0
                         THEN Append(wl.before[t], wl.meta[t])
                         ELSE wl.before[t]
      /\ wl.meta[t].number \notin wl.pending_outputs_

\* a table of the recovered Version set has no file in the directory that
\* Recover has listed
FileAbsent ==
  /\ rec.listed
  /\ \E n \in rec.live : [type |-> "kTableFile", number |-> n] \notin rec.filenames

\* C38: when a file referenced by the recovered Version set is absent from
\* the directory, Open fails with Corruption and returns no handle, no log
\* file is replayed and last_sequence stays what the MANIFEST said.
C38_MissingFileFailsOpen ==
  FileAbsent =>
    /\ rec.s = "Corruption"
    /\ rec.dbptr = "nullptr"
    /\ rec.pc \in {"finish", "returned"}
    /\ rec.replayed = {}
    /\ rec.last_sequence = rec.manifest_sequence

\* Open has returned Corruption for a directory that lacks a table and
\* holds a log file Recover would have replayed
C38_Witness ==
  /\ FileAbsent
  /\ rec.pc = "returned"
  /\ rec.s = "Corruption"
  /\ rec.logs # {}
  /\ rec.manifest_sequence > 0

\* the tables new_files holds
TablesOf(new_files) == {new_files[i][2] : i \in 1 .. Len(new_files)}

\* C39: AddFileIfNotExist with a table already in new_files_ leaves
\* new_files_ unchanged and appends no table whose file_size is 0;
\* RemoveFile with a tuple already recorded leaves deleted_files_
\* unchanged; a call that repeats the call before it changes nothing.
C39_EditDeltasIdempotent ==
  /\ ve.op # << >> /\ ve.op[1] = "AddFileIfNotExist" =>
       /\ ve.op[3] \in TablesOf(ve.before.new_files_) =>
            ve.new_files_ = ve.before.new_files_
       /\ ve.file_size[ve.op[3]] = 0 => ve.new_files_ = ve.before.new_files_
       /\ ve.twice => ve.new_files_ = ve.before.new_files_
       /\ ve.deleted_files_ = ve.before.deleted_files_
  /\ ve.op # << >> /\ ve.op[1] = "RemoveFile" =>
       /\ <<ve.op[2], ve.op[3], ve.op[4]>> \in ve.before.deleted_files_ =>
            ve.deleted_files_ = ve.before.deleted_files_
       /\ ve.twice => ve.deleted_files_ = ve.before.deleted_files_
       /\ ve.new_files_ = ve.before.new_files_

\* the same table was offered twice in a row and is in new_files_, next to
\* a recorded deletion
C39_Witness ==
  /\ ve.op # << >>
  /\ ve.op[1] = "AddFileIfNotExist"
  /\ ve.twice
  /\ ve.new_files_ # << >>
  /\ ve.op[3] \in TablesOf(ve.new_files_)
  /\ ve.deleted_files_ # {}

\* the contents are shorter than 4 bytes or store a restart count they
\* cannot hold
BadContents ==
  \/ Len(blk.contents) < 4
  \/ NumRestarts(blk.contents, Len(blk.contents)) > (Len(blk.contents) - 4) \div 4

\* C40: a Block built from bad contents is marked with size_ 0, NewIterator
\* on a marked block returns the error iterator with Corruption and does not
\* decode, and a valid block with zero restarts yields the empty iterator.
C40_InvalidBlockGivesCorruption ==
  /\ blk.pc # "none" /\ BadContents => blk.pc # "aborted" /\ blk.size_ = 0
  /\ blk.pc = "iterated" /\ blk.size_ = 0 =>
       blk.iterator = "Corruption: bad block contents"
  /\ blk.pc = "iterated" /\ ~BadContents
       /\ NumRestarts(blk.contents, Len(blk.contents)) = 0 =>
         blk.iterator = "EmptyIterator"
====
